---- MODULE Spec2Model ----
(***************************************************************************)
(* Offline synchronisation and reminder scheduling core of Task-Reminder.  *)
(*                                                                         *)
(* Client: useTaskAPI (task CRUD with offline fallback and batch drain),   *)
(* IndexedDBManager (local durable store and sync queue), useOfflineSync   *)
(* (per-item drain), TaskProvider (task lists, drain driver).              *)
(* Server: the express handlers of /api/tasks and /api/sync.               *)
(*                                                                         *)
(* Time is one integer clock shared by client and server (no drift).       *)
(* The database is reliable: a statement fails only on a primary-key       *)
(* violation.  Every fetch() may fail before reaching the server, or lose  *)
(* the response after the server has applied the request.                  *)
(***************************************************************************)
EXTENDS Integers, Sequences, FiniteSets, TLC

\* ---------------------------------------------------------------- bounds
MaxTime == 1
MaxKey == 2
MaxTaskIds == 1
MaxListIds == 1

TaskIds == 1..MaxTaskIds
ListIds == {100 + i : i \in 1..MaxListIds}
QueueKeys == 1..MaxKey
NetOutcomes == {"ok", "fail", "lost"}

MaxNid == 2
MaxQueued == 1
MaxStamp == 3

\* The retry ceiling of the per-item drain (item.retries >= 3).
MaxRetries == 3

VARIABLES
  now,            \* Date.now() / new Date(), client and server
  online,         \* navigator.onLine
  localTasks,     \* IndexedDB store 'tasks', keyed by id
  localLists,     \* IndexedDB store 'task_lists', keyed by id
  taskLists,      \* TaskProvider React state taskLists (set of list ids shown)
  syncQueue,      \* IndexedDB store 'sync_queue' (set of items, keyed by key)
  remoteTasks,    \* table tasks of the Remote Task Service
  remoteLists,    \* table task_lists of the Remote Task Service
  usedIds,        \* task/list uuids handed out so far (uuids are never reused)
  usedKeys,       \* sync-queue uuids handed out so far
  nextSeq,        \* history: number of addToSyncQueue calls so far
  basis,          \* history: updated_at of the server version the local copy derives from
  serverWriter,   \* history: who wrote the server row last ("me", "other", "none")
  lastOp,         \* history: outcome of the last useTaskAPI / TaskProvider mutation
  lastDrain,      \* history: what the last drain sent and what the server did with it
  persisted,      \* IndexedDB app_state 'scheduledNotifications' (sequence of reminders)
  scheduledNotifications, \* React state of useNotifications, as the handlers' closures see it
  timers,         \* armed setTimeout callbacks of the page
  nextNid,        \* history: number of reminder uuids handed out
  shown,          \* history: the local notifications shown so far
  superseded,     \* history: reminders a cancel-before-reschedule was meant to cancel
  lateShown,      \* history: local notifications shown for a task completed or deleted by then
  swMap,          \* service worker: Map scheduledNotifications, taskId -> timeout id (0: none)
  swTimers,       \* service worker: armed setTimeout callbacks
  swNext,         \* service worker: number of timeout ids handed out
  swShown,        \* history: notifications shown by the service worker
  swQueue,        \* service worker: notificationQueue
  expIn,          \* the arguments of a call of the recurrence expander
  expOut,         \* the due dates of the instances the call produced
  rLocal,         \* series: IndexedDB store 'tasks' (rows with the recurrence columns)
  rTasks,         \* series: TaskProvider React state tasks
  rQueue,         \* series: IndexedDB store 'sync_queue', in the order the drain sends it
  rRemote,        \* series: table tasks of the Remote Task Service
  rLocalLists,    \* series: IndexedDB store 'task_lists' (ids)
  rRemoteLists,   \* series: table task_lists of the Remote Task Service (ids)
  rTaskLists,     \* series: TaskProvider React state taskLists (ids)
  rOps,           \* series: the number of handler calls the page has made
  rDeleted,       \* series, history: the parents whose series deleteTask was asked to delete
  rDeletedLists,  \* series, history: the lists deleteTaskList was asked to delete
  rNextId,        \* series: number of uuids handed out, by the client and by the database
  rLast,          \* history: the last operation on the series and the stores before it
  rAddedOnline,   \* history: ids of the parents addTask created while the page was online
  idbTasks,       \* IndexedDB store 'tasks' with its owners: id -> row
  idbLists,       \* IndexedDB store 'task_lists' with its owners: id -> row
  idbRead,        \* the last read of IndexedDBManager and what it returned
  scTasks,        \* server scan: table tasks, id -> row
  scSubs,         \* server scan: table push_subscriptions
  scNow,          \* server scan: NOW() of the database, in minutes
  scLast,         \* history: what the last pass of send-notifications selected and did
  scSent,         \* history: deliveries of the scan passes per task, channel and endpoint (capped)
  scOps,          \* number of writes to the two tables so far
  auTasks,        \* API server with several users: table tasks, id -> row
  auLast,         \* history: the last request, who sent it, the table before, the answer
  inSource,       \* instance builders: the task an instance is built from
  inOut,          \* instance builders: the builder that ran and the instance it built
  tp,             \* drains of TaskProvider: syncStatus, the auto-sync timer, drains in flight
  os,             \* drains of useOfflineSync: syncStatus, the closures its listeners and timer hold
  dfLast          \* history: the last trigger of a drain and whether it went on to send

syncVars == <<now, online, localTasks, localLists, taskLists, syncQueue, remoteTasks,
              remoteLists, usedIds, usedKeys, nextSeq, basis, serverWriter, lastOp, lastDrain>>

notifVars == <<persisted, scheduledNotifications, timers, nextNid, shown, superseded,
               lateShown, swMap, swTimers, swNext, swShown, swQueue>>

pageVars == <<persisted, scheduledNotifications, timers, nextNid, shown, superseded,
              lateShown>>

swVars == <<swMap, swTimers, swNext, swShown, swQueue>>

expVars == <<expIn, expOut>>

seriesVars == <<rLocal, rTasks, rQueue, rRemote, rLocalLists, rRemoteLists, rTaskLists,
                rNextId, rLast, rAddedOnline, rOps, rDeleted,
                rDeletedLists>>

idbVars == <<idbTasks, idbLists, idbRead>>

scanVars == <<scTasks, scSubs, scNow, scLast, scSent, scOps>>

authVars == <<auTasks, auLast>>

instVars == <<inSource, inOut>>

flightVars == <<tp, os, dfLast>>

extVars == <<idbVars, scanVars, authVars, instVars, flightVars>>

nonIdbVars == <<scanVars, authVars, instVars, flightVars>>

nonScanVars == <<idbVars, authVars, instVars, flightVars>>

nonAuthVars == <<idbVars, scanVars, instVars, flightVars>>

nonInstVars == <<idbVars, scanVars, authVars, flightVars>>

nonFlightVars == <<idbVars, scanVars, authVars, instVars>>

recVars == <<expVars, seriesVars, extVars>>

vars == <<syncVars, notifVars, recVars>>

\* ---------------------------------------------------------------- records
Absent == [absent |-> TRUE]

NoOp == [op |-> "none"]
NoDrain == [kind |-> "none"]

\* A row of 'tasks' as the client stores it (OfflineTask).
TaskRec(id, f, status, offline, created, updated) ==
  [id |-> id, title |-> f.title, due |-> f.due, notification_time |-> f.notification_time,
   push_notification |-> f.push_notification, completed |-> f.completed,
   sync_status |-> status, offline_created |-> offline,
   created_at |-> created, updated_at |-> updated]

\* The user-editable fields of a task ({...existingTask, ...updates}).
Fields(title, due, lead, push, completed) ==
  [title |-> title, due |-> due, notification_time |-> lead,
   push_notification |-> push, completed |-> completed]

FieldsOf(t) == Fields(t.title, t.due, t.notification_time, t.push_notification, t.completed)

\* A row of 'task_lists' as the client stores it (OfflineTaskList).
ListRec(id, status, offline, created, updated) ==
  [id |-> id, sync_status |-> status, offline_created |-> offline,
   created_at |-> created, updated_at |-> updated]

\* ---------------------------------------------------------------- IndexedDBManager
\* getTask: a soft-deleted row reads as null.
getTask(store, id) ==
  IF store[id] # Absent /\ store[id].sync_status # "deleted" THEN store[id] ELSE Absent

\* getTasks / getTaskLists: all rows that are not soft-deleted.
getTasks(store) == {id \in DOMAIN store : store[id] # Absent /\ store[id].sync_status # "deleted"}

\* saveTask / saveTaskList: store.put (upsert by id).
saveTask(store, rec) == [store EXCEPT ![rec.id] = rec]

\* deleteTask / deleteTaskList: store.delete.
deleteRow(store, id) == [store EXCEPT ![id] = Absent]

\* addToSyncQueue: fresh uuid key, timestamp Date.now(), retries 0.
addToSyncQueue(q, key, type, action, data, seq, bas) ==
  q \cup {[key |-> key, type |-> type, action |-> action, data |-> data,
           timestamp |-> now, retries |-> 0, seq |-> seq, basis |-> bas]}

\* getSyncQueue: store.getAll() returns the items in ascending order of the
\* store's key path 'id', the random uuid of the item.
RECURSIVE getSyncQueue(_)
getSyncQueue(q) ==
  IF q = {} THEN <<>>
  ELSE LET m == CHOOSE e \in q : \A f \in q : e.key <= f.key
       IN <<m>> \o getSyncQueue(q \ {m})

removeSyncQueueItem(q, key) == {e \in q : e.key # key}

\* crypto.randomUUID() / gen_random_uuid() for a task or list: an id never used before.
FreshId(ids, used) == CHOOSE i \in ids \ used : \A j \in ids \ used : i <= j

\* ---------------------------------------------------------------- useTaskAPI
\* The stores a useTaskAPI call reads and writes, as one value.
Stores ==
  [local |-> localTasks, queue |-> syncQueue, remote |-> remoteTasks, usedIds |-> usedIds,
   usedKeys |-> usedKeys, nextSeq |-> nextSeq, basis |-> basis, writer |-> serverWriter]

\* saveTaskOffline(taskData, action): id 0 stands for 'taskData.id is undefined'.
saveTaskOffline(S, tid, f, created, action, key) ==
  LET taskId == IF tid # 0 THEN tid ELSE FreshId(TaskIds, S.usedIds)
      offlineTask == TaskRec(taskId, f, IF action = "delete" THEN "deleted" ELSE "pending",
                             tid = 0, IF created # -1 THEN created ELSE now, now)
  IN [S EXCEPT !.local = saveTask(S.local, offlineTask),
               !.queue = addToSyncQueue(S.queue, key, "task", action, offlineTask,
                                        S.nextSeq + 1, S.basis[taskId]),
               !.usedIds = S.usedIds \cup {taskId},
               !.usedKeys = S.usedKeys \cup {key},
               !.nextSeq = S.nextSeq + 1]

\* POST /api/tasks: the server builds the row itself; the database assigns id and timestamps.
PostTask(S, f) ==
  LET sid == FreshId(TaskIds, S.usedIds)
      row == TaskRec(sid, [f EXCEPT !.completed = FALSE], "synced", FALSE, now, now)
  IN [S EXCEPT !.remote = saveTask(S.remote, row), !.usedIds = S.usedIds \cup {sid},
               !.writer[sid] = "me"]

\* createTask(taskData): offline save, or POST with offline fallback in the catch block.
\* ret is the task the call resolves to (Absent when it throws).
createTaskEff(f, net, onlineAfter, key) ==
  LET S == Stores
      opRec(id, failed, thrown, k) ==
        [op |-> "create", type |-> "task", id |-> id, offline |-> ~online,
         failed |-> failed, thrown |-> thrown, enq |-> k # -1,
         key |-> IF k = -1 THEN 0 ELSE k, lost |-> net = "lost"]
      off(P) == saveTaskOffline(P, 0, f, -1, "create", key)
      oid(P) == FreshId(TaskIds, P.usedIds)
  IN IF ~online
     THEN [S |-> off(S), op |-> opRec(oid(S), FALSE, FALSE, key), online |-> online,
           ret |-> off(S).local[oid(S)]]
     ELSE IF net = "ok"
     THEN LET P == PostTask(S, f)
              sid == oid(S)
          IN [S |-> [P EXCEPT !.local = saveTask(P.local, P.remote[sid]), !.basis[sid] = now],
              op |-> opRec(sid, FALSE, FALSE, -1), online |-> online, ret |-> P.remote[sid]]
     ELSE LET P == IF net = "lost" THEN PostTask(S, f) ELSE S
          IN IF onlineAfter
             THEN [S |-> off(P), op |-> opRec(oid(P), TRUE, FALSE, key),
                   online |-> onlineAfter, ret |-> off(P).local[oid(P)]]
             ELSE [S |-> P, op |-> opRec(0, TRUE, TRUE, -1), online |-> onlineAfter,
                   ret |-> Absent]

\* PUT /api/tasks/:id: no row matched makes .single() fail (500); otherwise the row is
\* overwritten with the updates, sync_status 'synced' and updated_at = now.
PutTask(S, id, f) ==
  IF S.remote[id] = Absent THEN S
  ELSE [S EXCEPT !.remote[id] = TaskRec(id, f, "synced", FALSE, S.remote[id].created_at, now),
                 !.writer[id] = "me"]

\* updateTask(id, updates): upd is a record holding the fields that 'updates' sets.
updateTaskEff(id, upd, net, onlineAfter, key) ==
  LET S == Stores
      existing == getTask(S.local, id)
      merged(t) == upd @@ FieldsOf(t)
      opRec(failed, thrown, k) ==
        [op |-> "update", type |-> "task", id |-> id, offline |-> ~online,
         failed |-> failed, thrown |-> thrown, enq |-> k # -1,
         key |-> IF k = -1 THEN 0 ELSE k, lost |-> net = "lost"]
      off(P) == saveTaskOffline(P, id, merged(existing), existing.created_at, "update", key)
  IN IF ~online
     THEN IF existing = Absent
          THEN [S |-> S, op |-> opRec(FALSE, TRUE, -1), online |-> online, ret |-> Absent]
          ELSE [S |-> off(S), op |-> opRec(FALSE, FALSE, key), online |-> online,
                ret |-> off(S).local[id]]
     ELSE IF net = "ok" /\ S.remote[id] # Absent
     THEN LET P == PutTask(S, id, merged(S.remote[id]))
          IN [S |-> [P EXCEPT !.local = saveTask(P.local, P.remote[id]), !.basis[id] = now],
              op |-> opRec(FALSE, FALSE, -1), online |-> online, ret |-> P.remote[id]]
     ELSE LET P == IF net = "lost" /\ S.remote[id] # Absent
                   THEN PutTask(S, id, merged(S.remote[id])) ELSE S
              onl == IF net = "ok" THEN online ELSE onlineAfter
          IN IF onl /\ existing # Absent
             THEN [S |-> off(P), op |-> opRec(TRUE, FALSE, key), online |-> onl,
                   ret |-> off(P).local[id]]
             ELSE [S |-> P, op |-> opRec(TRUE, TRUE, -1), online |-> onl, ret |-> Absent]

\* DELETE /api/tasks/:id: 404 when the row is missing, otherwise the row is deleted.
DeleteTaskRow(S, id) ==
  [S EXCEPT !.remote = deleteRow(S.remote, id), !.writer[id] = "none"]

\* deleteTask(id)
deleteTaskEff(id, net, onlineAfter, key) ==
  LET S == Stores
      taskToDelete == getTask(S.local, id)
      opRec(failed, thrown, k) ==
        [op |-> "delete", type |-> "task", id |-> id, offline |-> ~online,
         failed |-> failed, thrown |-> thrown, enq |-> k # -1,
         key |-> IF k = -1 THEN 0 ELSE k, lost |-> net = "lost"]
      off(P) == saveTaskOffline(P, id, FieldsOf(taskToDelete), taskToDelete.created_at,
                                "delete", key)
  IN IF taskToDelete = Absent
     THEN [S |-> S, op |-> opRec(FALSE, TRUE, -1), online |-> online, ret |-> Absent]
     ELSE IF ~online
     THEN [S |-> off(S), op |-> opRec(FALSE, FALSE, key), online |-> online, ret |-> Absent]
     ELSE IF net = "ok" /\ S.remote[id] # Absent
     THEN LET P == DeleteTaskRow(S, id)
          IN [S |-> [P EXCEPT !.local = deleteRow(P.local, id)],
              op |-> opRec(FALSE, FALSE, -1), online |-> online, ret |-> Absent]
     ELSE LET P == IF net = "lost" /\ S.remote[id] # Absent THEN DeleteTaskRow(S, id) ELSE S
              onl == IF net = "ok" THEN online ELSE onlineAfter
          IN IF onl
             THEN [S |-> off(P), op |-> opRec(TRUE, FALSE, key), online |-> onl, ret |-> Absent]
             ELSE [S |-> P, op |-> opRec(TRUE, TRUE, -1), online |-> onl, ret |-> Absent]

\* A fetch that would leave alone the local rows that still wait for their sync; C30
\* tells it from saveTasks.
saveTasksKeepingPending(local, remote) ==
  [id \in TaskIds |->
     IF remote[id] # Absent /\ (local[id] = Absent \/ local[id].sync_status = "synced")
     THEN [remote[id] EXCEPT !.sync_status = "synced", !.offline_created = FALSE]
     ELSE local[id]]

\* fetchTasks, online and successful: every server row is put into the local store with
\* sync_status 'synced' and offline_created false (saveTasks is a put per row).
saveTasks(local, remote) ==
  [id \in TaskIds |->
     IF remote[id] # Absent
     THEN [remote[id] EXCEPT !.sync_status = "synced", !.offline_created = FALSE]
     ELSE local[id]]

fetchBasis(bas, remote) ==
  [id \in TaskIds |-> IF remote[id] # Absent THEN remote[id].updated_at ELSE bas[id]]

\* ---------------------------------------------------------------- POST /api/sync
\* handleTaskCreate: insert {...data, sync_status: 'synced'}; a duplicate id is an error.
handleTaskCreate(R, data) ==
  IF R.tasks[data.id] # Absent
  THEN [R EXCEPT !.threw = TRUE]
  ELSE [R EXCEPT !.tasks[data.id] = [data EXCEPT !.sync_status = "synced"],
                 !.writer[data.id] = "me"]

\* A handler that would also refuse an update whose client timestamp equals the row's
\* updated_at; C3 tells it from handleTaskUpdate.
handleTaskUpdateRefusingEqual(R, data, clientTimestamp) ==
  LET existingTask == R.tasks[data.id]
  IN IF existingTask # Absent /\ existingTask.updated_at >= clientTimestamp
     THEN [R EXCEPT !.conflicts = Append(@, [id |-> data.id, type |-> "task",
                                             reason |-> "Server version is newer",
                                             serverTimestamp |-> existingTask.updated_at,
                                             clientTimestamp |-> clientTimestamp])]
     ELSE IF existingTask = Absent THEN R
     ELSE [R EXCEPT !.tasks[data.id] = [data EXCEPT !.sync_status = "synced",
                                                    !.updated_at = now],
                    !.writer[data.id] = "me", !.wrote = TRUE]

\* handleTaskUpdate: a conflict when the row's updated_at is newer than clientTimestamp,
\* otherwise update {...data, sync_status: 'synced', updated_at: now} where id matches.
handleTaskUpdate(R, data, clientTimestamp) ==
  LET existingTask == R.tasks[data.id]
  IN IF existingTask # Absent /\ existingTask.updated_at > clientTimestamp
     THEN [R EXCEPT !.conflicts = Append(@, [id |-> data.id, type |-> "task",
                                             reason |-> "Server version is newer",
                                             serverTimestamp |-> existingTask.updated_at,
                                             clientTimestamp |-> clientTimestamp])]
     ELSE IF existingTask = Absent THEN R
     ELSE [R EXCEPT !.tasks[data.id] = [data EXCEPT !.sync_status = "synced",
                                                    !.updated_at = now],
                    !.writer[data.id] = "me", !.wrote = TRUE]

\* handleTaskDelete: delete where id matches.
handleTaskDelete(R, id) ==
  [R EXCEPT !.tasks[id] = Absent, !.writer[id] = "none"]

\* handleTaskListCreate
handleTaskListCreate(R, data) ==
  IF R.lists[data.id] # Absent
  THEN [R EXCEPT !.threw = TRUE]
  ELSE [R EXCEPT !.lists[data.id] = [data EXCEPT !.sync_status = "synced"]]

\* handleTaskListUpdate
handleTaskListUpdate(R, data, clientTimestamp) ==
  LET existingList == R.lists[data.id]
  IN IF existingList # Absent /\ existingList.updated_at > clientTimestamp
     THEN [R EXCEPT !.conflicts = Append(@, [id |-> data.id, type |-> "task_list",
                                             reason |-> "Server version is newer",
                                             serverTimestamp |-> existingList.updated_at,
                                             clientTimestamp |-> clientTimestamp])]
     ELSE IF existingList = Absent THEN R
     ELSE [R EXCEPT !.lists[data.id] = [data EXCEPT !.sync_status = "synced",
                                                    !.updated_at = now],
                    !.wrote = TRUE]

\* handleTaskListDelete
handleTaskListDelete(R, id) ==
  [R EXCEPT !.lists[id] = Absent]

\* processSyncChange: dispatch on type and action.
processSyncChange(R, change) ==
  IF change.type = "task"
  THEN CASE change.action = "create" -> handleTaskCreate(R, change.data)
         [] change.action = "update" -> handleTaskUpdate(R, change.data, change.clientTimestamp)
         [] change.action = "delete" -> handleTaskDelete(R, change.data.id)
  ELSE CASE change.action = "create" -> handleTaskListCreate(R, change.data)
         [] change.action = "update" -> handleTaskListUpdate(R, change.data, change.clientTimestamp)
         [] change.action = "delete" -> handleTaskListDelete(R, change.data.id)

\* What the server knew and did for one change (history, for the properties).
ChangeLog(R0, R1, change) ==
  LET tbl0 == IF change.type = "task" THEN R0.tasks ELSE R0.lists
      tbl1 == IF change.type = "task" THEN R1.tasks ELSE R1.lists
      id == change.data.id
  IN [key |-> change.key, seq |-> change.seq, type |-> change.type, action |-> change.action,
      id |-> id, existed |-> tbl0[id] # Absent,
      Ts |-> IF tbl0[id] # Absent THEN tbl0[id].updated_at ELSE -1,
      Tc |-> change.clientTimestamp, basis |-> change.basis,
      writer |-> IF change.type = "task" THEN R0.writer[id] ELSE "none",
      written |-> R1.wrote, rowSame |-> tbl1[id] = tbl0[id],
      nconf |-> Len(R1.conflicts) - Len(R0.conflicts),
      conflict |-> IF Len(R1.conflicts) > Len(R0.conflicts)
                   THEN R1.conflicts[Len(R1.conflicts)] ELSE Absent,
      threw |-> R1.threw]

\* A loop that would stop at the first change that throws; C25 tells it from
\* ProcessChanges.
RECURSIVE ProcessChangesAborting(_, _, _)
ProcessChangesAborting(R, changes, i) ==
  IF i > Len(changes) THEN R
  ELSE LET R0 == [R EXCEPT !.threw = FALSE, !.wrote = FALSE]
           R1 == processSyncChange(R0, changes[i])
           R2 == [R1 EXCEPT !.log = Append(@, ChangeLog(R0, R1, changes[i])),
                            !.processed = IF R1.threw THEN @ ELSE @ + 1,
                            !.errors = IF R1.threw THEN Append(@, changes[i].key) ELSE @]
       IN IF R1.threw THEN R2 ELSE ProcessChangesAborting(R2, changes, i + 1)

\* The loop of POST /api/sync: each change in request order; processed counts the changes
\* that did not throw, errors those that did.
RECURSIVE ProcessChanges(_, _, _)
ProcessChanges(R, changes, i) ==
  IF i > Len(changes) THEN R
  ELSE LET R0 == [R EXCEPT !.threw = FALSE, !.wrote = FALSE]
           R1 == processSyncChange(R0, changes[i])
           R2 == [R1 EXCEPT !.log = Append(@, ChangeLog(R0, R1, changes[i])),
                            !.processed = IF R1.threw THEN @ ELSE @ + 1,
                            !.errors = IF R1.threw THEN Append(@, changes[i].key) ELSE @]
       IN ProcessChanges(R2, changes, i + 1)

\* The changes array built by syncOfflineChanges: clientTimestamp is the enqueue time of
\* the item.  key, seq and basis travel along for the properties only.
Changes(queue) ==
  [i \in 1..Len(queue) |->
     [type |-> queue[i].type, action |-> queue[i].action, data |-> queue[i].data,
      clientTimestamp |-> queue[i].timestamp,
      key |-> queue[i].key, seq |-> queue[i].seq, basis |-> queue[i].basis]]

SyncEndpoint(changes) ==
  ProcessChanges([tasks |-> remoteTasks, lists |-> remoteLists, writer |-> serverWriter,
                  processed |-> 0, errors |-> <<>>, conflicts |-> <<>>, log |-> <<>>,
                  threw |-> FALSE, wrote |-> FALSE], changes, 1)

\* ---------------------------------------------------------------- drains
\* syncOfflineChanges removes syncQueue[0 .. processed-1] of the array it sent.
RemoveProcessed(q, sent, processed) ==
  {e \in q : \A i \in 1..Len(sent) : (i <= processed) => sent[i].key # e.key}

\* fetchTaskLists, online and successful: the server rows become the React state and are
\* put into the local store.
saveTaskLists(local, remote) ==
  [id \in ListIds |->
     IF remote[id] # Absent
     THEN [remote[id] EXCEPT !.sync_status = "synced", !.offline_created = FALSE]
     ELSE local[id]]

\* processSyncItem of useOfflineSync: the item's data goes to the table as it is; the
\* result of the statement, an error included, is not looked at.
processSyncItem(R, item) ==
  LET id == item.data.id
  IN IF item.type = "task"
     THEN CASE item.action = "create" ->
                 IF R.tasks[id] # Absent THEN R
                 ELSE [R EXCEPT !.tasks[id] = item.data,
                                !.writer[id] = "me"]
            [] item.action = "update" ->
                 IF R.tasks[id] = Absent THEN R
                 ELSE [R EXCEPT !.tasks[id] = item.data,
                                !.writer[id] = "me"]
            [] item.action = "delete" ->
                 [R EXCEPT !.tasks[id] = Absent, !.writer[id] = "none"]
     ELSE CASE item.action = "create" ->
                 IF R.lists[id] # Absent THEN R
                 ELSE [R EXCEPT !.lists[id] = item.data]
            [] item.action = "update" ->
                 IF R.lists[id] = Absent THEN R
                 ELSE [R EXCEPT !.lists[id] = item.data]
            [] item.action = "delete" ->
                 [R EXCEPT !.lists[id] = Absent]

\* The for-loop of useOfflineSync.syncOfflineData over the queue read at the start.
\* throws is the set of items whose processSyncItem rejects.
RECURSIVE ItemLoop(_, _, _, _)
ItemLoop(R, items, i, throws) ==
  IF i > Len(items) THEN R
  ELSE LET item == items[i]
           R1 == IF item.key \in throws
                 THEN IF item.retries + 1 >= MaxRetries
                      THEN [R EXCEPT !.queue = removeSyncQueueItem(@, item.key),
                                     !.dropped = @ \cup {item.key}]
                      ELSE [R EXCEPT !.queue = removeSyncQueueItem(@, item.key)
                                                 \cup {[item EXCEPT !.retries = @ + 1]}]
                 ELSE [processSyncItem(R, item) EXCEPT !.queue = removeSyncQueueItem(@, item.key)]
       IN ItemLoop(R1, items, i + 1, throws)

\* ---------------------------------------------------------------- useNotifications
\* The reminder state a handler of the page works on.  A handler's closure holds the React
\* state scheduledNotifications of the render it was created in (snap): every call made
\* inside one handler, and every timer callback armed by it, reads that same value.
\* permission is state.permission as that closure holds it: 'granted' in the handlers
\* TaskProvider calls (the user has allowed notifications), 'default' in the closures of the
\* first render.
Reminders ==
  [persisted |-> persisted, timers |-> timers, nextNid |-> nextNid, shown |-> shown,
   superseded |-> superseded, lateShown |-> lateShown, permission |-> "granted"]

\* getNotificationDelay, in minutes (the clock counts minutes).
getNotificationDelay(timing) ==
  CASE timing = "3min" -> 3
    [] timing = "5min" -> 5
    [] timing = "10min" -> 10
    [] timing = "15min" -> 15
    [] timing = "20min" -> 20
    [] timing = "25min" -> 25
    [] timing = "30min" -> 30
    [] timing = "45min" -> 45
    [] timing = "50min" -> 50
    [] timing = "1hour" -> 60
    [] timing = "2hours" -> 120
    [] timing = "1day" -> 1440
    [] OTHER -> 10

\* saveScheduledNotifications: setAppState and setScheduledNotifications.
saveScheduledNotifications(N, notifications) == [N EXCEPT !.persisted = notifications]

\* The task is completed, or deleted, in the store of the page.
CompletedOrDeleted(taskId) ==
  \/ localTasks[taskId] = Absent
  \/ localTasks[taskId].sync_status = "deleted"
  \/ localTasks[taskId].completed

\* showTaskNotification: nothing unless the closure's permission is 'granted'; else show,
\* then save the closure's list without this reminder.
showTaskNotification(N, snap, notification) ==
  IF N.permission # "granted" THEN N
  ELSE saveScheduledNotifications(
    [N EXCEPT !.shown = @ \cup {notification},
              !.lateShown = IF CompletedOrDeleted(notification.taskId)
                            THEN @ \cup {notification} ELSE @],
    SelectSeq(snap, LAMBDA n : n.id # notification.id))

\* scheduleLocalNotification: show at once when the time has passed, else setTimeout; the
\* handle setTimeout returns is not kept.
scheduleLocalNotification(N, snap, notification) ==
  IF notification.scheduledTime - now <= 0
  THEN showTaskNotification(N, snap, notification)
  ELSE [N EXCEPT !.timers = @ \cup {[n |-> notification, snap |-> snap,
                                     permission |-> N.permission]}]

\* scheduleTaskNotification(task, customTime): customTime 0 stands for 'undefined'.
scheduleTaskNotification(N, snap, task, customTime) ==
  IF ~task.push_notification \/ task.completed THEN N
  ELSE LET reminderTime == IF customTime # 0 THEN customTime
                           ELSE task.due - getNotificationDelay(task.notification_time)
           scheduledNotification ==
             [id |-> N.nextNid + 1, taskId |-> task.id, scheduledTime |-> reminderTime,
              notificationTime |-> task.notification_time]
       IN IF reminderTime <= now THEN N
          ELSE scheduleLocalNotification(
                 saveScheduledNotifications([N EXCEPT !.nextNid = @ + 1],
                                            Append(snap, scheduledNotification)),
                 snap, scheduledNotification)

\* cancelTaskNotifications(taskId): save the closure's list without the task's reminders.
cancelTaskNotifications(N, snap, taskId) ==
  saveScheduledNotifications(N, SelectSeq(snap, LAMBDA n : n.taskId # taskId))

\* updateTaskNotification(task).  superseded records the reminders of the task whose
\* callbacks were armed when the update ran.
updateTaskNotification(N, snap, task) ==
  LET N0 == [N EXCEPT !.superseded = @ \cup {t.n.id : t \in {u \in N.timers : u.n.taskId = task.id}}]
      N1 == cancelTaskNotifications(N0, snap, task.id)
  IN IF task.push_notification /\ ~task.completed
     THEN scheduleTaskNotification(N1, snap, task, 0)
     ELSE N1

\* The loop of syncNotifications over the rows the query returned (ids ascending).
RECURSIVE ScheduleAll(_, _, _, _)
ScheduleAll(N, snap, rows, ids) ==
  IF ids = {} THEN N
  ELSE LET id == CHOOSE i \in ids : \A j \in ids : i <= j
       IN ScheduleAll(scheduleTaskNotification(N, snap, rows[id], 0), snap, rows, ids \ {id})

\* syncNotifications: query the server's tasks with push_notification and not completed,
\* save the empty list, schedule each row.  queryOk is the fate of the query.
syncNotifications(N, snap, rows, isOnline, queryOk) ==
  IF ~isOnline \/ ~queryOk THEN N
  ELSE ScheduleAll(saveScheduledNotifications(N, <<>>), snap, rows,
                   {id \in TaskIds : rows[id] # Absent /\ rows[id].push_notification
                                                      /\ ~rows[id].completed})

\* ---------------------------------------------------------------- initial state
InitCore ==
  /\ now = 0
  /\ online = TRUE
  /\ localTasks = [id \in TaskIds |-> Absent]
  /\ localLists = [id \in ListIds |-> Absent]
  /\ taskLists = {}
  /\ syncQueue = {}
  /\ remoteTasks = [id \in TaskIds |-> Absent]
  /\ remoteLists = [id \in ListIds |-> Absent]
  /\ usedIds = {}
  /\ usedKeys = {}
  /\ nextSeq = 0
  /\ basis = [id \in TaskIds |-> -1]
  /\ serverWriter = [id \in TaskIds |-> "none"]
  /\ lastOp = NoOp
  /\ lastDrain = NoDrain
  /\ persisted = <<>>
  /\ scheduledNotifications = <<>>
  /\ timers = {}
  /\ nextNid = 0
  /\ shown = {}
  /\ superseded = {}
  /\ lateShown = {}
  /\ swMap = [id \in TaskIds |-> 0]
  /\ swTimers = {}
  /\ swNext = 0
  /\ swShown = {}
  /\ swQueue = <<>>

\* No call of the expander is under way.
ExpanderIdle ==
  /\ expIn = [recurrence |-> "none"]
  /\ expOut = <<>>

\* No task with recurrence columns exists yet.
SeriesInit ==
  /\ rLocal = {}
  /\ rTasks = {}
  /\ rQueue = <<>>
  /\ rRemote = {}
  /\ rLocalLists = {}
  /\ rRemoteLists = {}
  /\ rTaskLists = {}
  /\ rOps = 0
  /\ rDeleted = {}
  /\ rDeletedLists = {}
  /\ rNextId = 0
  /\ rLast = NoOp
  /\ rAddedOnline = {}

\* ---------------------------------------------------------------- IndexedDB with owners
\* The users of one browser, and the rows IndexedDBManager is given: every caller sets
\* user_id and sync_status (saveTaskOffline, fetchTasks, addTaskList, fetchTaskLists).
Users == {"u1", "u2"}
MaxIdbTasks == 2
MaxIdbLists == 1
IdbTaskIds == 1..MaxIdbTasks
IdbListIds == 1..MaxIdbLists
IdbRows(Ids) ==
  [id : Ids, user_id : Users, sync_status : {"synced", "pending", "deleted"}]

\* getTasks(userId) / getTaskLists(userId): index('user_id').getAll(userId), then the
\* filter on sync_status.
IndexedDB_getAll(store, userId) ==
  {store[id] : id \in {k \in DOMAIN store : store[k] # Absent /\ store[k].user_id = userId}}

IndexedDB_getTasksUnfiltered(store, userId) == IndexedDB_getAll(store, userId)

IndexedDB_getTasks(store, userId) ==
  {task \in IndexedDB_getAll(store, userId) : task.sync_status # "deleted"}

IndexedDB_getTaskLists(store, userId) ==
  {list \in IndexedDB_getAll(store, userId) : list.sync_status # "deleted"}

\* getTask(taskId): store.get(taskId); null for no row and for a row marked deleted.
IndexedDB_getTask(store, taskId) ==
  LET task == store[taskId]
  IN IF task # Absent /\ task.sync_status # "deleted" THEN task ELSE Absent

NoRead == [op |-> "none"]

IdbInit ==
  /\ idbTasks = [id \in IdbTaskIds |-> Absent]
  /\ idbLists = [id \in IdbListIds |-> Absent]
  /\ idbRead = NoRead

\* saveTask / saveTasks: store.put(task).
IDB_saveTask ==
  \E task \in IdbRows(IdbTaskIds) :
    /\ idbTasks' = [idbTasks EXCEPT ![task.id] = task]
    /\ idbRead' = NoRead
    /\ UNCHANGED <<syncVars, notifVars, expVars, seriesVars, nonIdbVars, idbLists>>

\* deleteTask(taskId): store.delete(taskId).
IDB_deleteTask ==
  \E taskId \in IdbTaskIds :
    /\ idbTasks' = [idbTasks EXCEPT ![taskId] = Absent]
    /\ idbRead' = NoRead
    /\ UNCHANGED <<syncVars, notifVars, expVars, seriesVars, nonIdbVars, idbLists>>

\* saveTaskList / saveTaskLists: store.put(list).
IDB_saveTaskList ==
  \E list \in IdbRows(IdbListIds) :
    /\ idbLists' = [idbLists EXCEPT ![list.id] = list]
    /\ idbRead' = NoRead
    /\ UNCHANGED <<syncVars, notifVars, expVars, seriesVars, nonIdbVars, idbTasks>>

\* deleteTaskList(listId): store.delete(listId).
IDB_deleteTaskList ==
  \E listId \in IdbListIds :
    /\ idbLists' = [idbLists EXCEPT ![listId] = Absent]
    /\ idbRead' = NoRead
    /\ UNCHANGED <<syncVars, notifVars, expVars, seriesVars, nonIdbVars, idbTasks>>

\* The three reads.
IDB_getTasks ==
  \E userId \in Users :
    /\ idbRead' = [op |-> "getTasks", userId |-> userId,
                   result |-> IndexedDB_getTasks(idbTasks, userId)]
    /\ UNCHANGED <<syncVars, notifVars, expVars, seriesVars, nonIdbVars, idbTasks, idbLists>>

IDB_getTask ==
  \E taskId \in IdbTaskIds :
    /\ idbRead' = [op |-> "getTask", taskId |-> taskId,
                   result |-> IndexedDB_getTask(idbTasks, taskId)]
    /\ UNCHANGED <<syncVars, notifVars, expVars, seriesVars, nonIdbVars, idbTasks, idbLists>>

IDB_getTaskLists ==
  \E userId \in Users :
    /\ idbRead' = [op |-> "getTaskLists", userId |-> userId,
                   result |-> IndexedDB_getTaskLists(idbLists, userId)]
    /\ UNCHANGED <<syncVars, notifVars, expVars, seriesVars, nonIdbVars, idbTasks, idbLists>>

\* ---------------------------------------------------------------- server scan
\* The tables the scan reads.  Time is in minutes; due_date and due_time together are one
\* number of minutes.
ScanIds == {1, 2}
SubIds == {1, 2, 3}
MaxScanTime == 5
MaxScanOps == 2
ScanDue == 6
LeadNames == {"3min", "5min", "soon"}
ScanOwner(id) == IF id = 1 THEN "u1" ELSE "u2"
ScanRows(id) ==
  [id : {id}, user_id : {ScanOwner(id)}, completed : BOOLEAN, push_notification : BOOLEAN,
   email_reminder : BOOLEAN, due : {ScanDue}, notification_time : LeadNames]
SubOwner(id) == IF id = 3 THEN "u2" ELSE "u1"
SubRow(id) == [id |-> id, user_id |-> SubOwner(id)]

\* calculate_notification_time(due_date, due_time, notification_time).
notification_interval(notification_time) ==
  CASE notification_time = "3min" -> 3
    [] notification_time = "5min" -> 5
    [] notification_time = "10min" -> 10
    [] notification_time = "15min" -> 15
    [] notification_time = "20min" -> 20
    [] notification_time = "25min" -> 25
    [] notification_time = "30min" -> 30
    [] notification_time = "45min" -> 45
    [] notification_time = "50min" -> 50
    [] notification_time = "1hour" -> 60
    [] notification_time = "2hours" -> 120
    [] notification_time = "1day" -> 1440
    [] OTHER -> 10

calculate_notification_time(due_datetime, notification_time) ==
  due_datetime - notification_interval(notification_time)

\* x BETWEEN lo AND hi
Between(x, lo, hi) == lo <= x /\ x <= hi

ScanTable(tasks) == {tasks[id] : id \in {k \in DOMAIN tasks : tasks[k] # Absent}}

\* A selection that would not look at completed; C22 tells it from
\* get_tasks_due_for_notifications.
get_tasks_due_ignoring_completed(tasks, NOW) ==
  {t \in ScanTable(tasks) :
     /\ t.push_notification = TRUE
     /\ Between(calculate_notification_time(t.due, t.notification_time), NOW - 1, NOW + 1)}

\* get_tasks_due_for_notifications() and get_tasks_due_for_email_notifications().
get_tasks_due_for_notifications(tasks, NOW) ==
  {t \in ScanTable(tasks) :
     /\ t.completed = FALSE
     /\ t.push_notification = TRUE
     /\ Between(calculate_notification_time(t.due, t.notification_time), NOW - 1, NOW + 1)}

get_tasks_due_for_email_notifications(tasks, NOW) ==
  {t \in ScanTable(tasks) :
     /\ t.completed = FALSE
     /\ t.email_reminder = TRUE
     /\ Between(calculate_notification_time(t.due, t.notification_time), NOW - 1, NOW + 1)}

\* sendPushNotification(subscription, task): builds the payload, logs it and resolves.
\* A result is [thrown, message]; message is the set of fragments the text contains.
sendPushNotification(subscription, task) == [thrown |-> FALSE, message |-> {}]

\* error.message?.includes('410') || error.message?.includes('invalid')
includes(message, fragment) == fragment \in message
RemovesSubscription(result) ==
  result.thrown /\ (includes(result.message, "410") \/ includes(result.message, "invalid"))

\* The push loop of the handler: the tasks one after the other, for each the
\* subscriptions of its owner as the table holds them at that moment.  The result is the
\* table afterwards and the attempts made, <<task id, subscription id, sent>>.
RECURSIVE pushFanOut(_, _, _)
pushFanOut(pushTasks, subs, attempts) ==
  IF pushTasks = {} THEN [subs |-> subs, attempts |-> attempts]
  ELSE LET task == CHOOSE t \in pushTasks : \A u \in pushTasks : t.id <= u.id
           subscriptions == {sub \in subs : sub.user_id = task.user_id}
           removed == {sub \in subscriptions :
                         RemovesSubscription(sendPushNotification(sub, task))}
           made == {<<task.id, sub.id, ~sendPushNotification(sub, task).thrown>> :
                      sub \in subscriptions}
       IN pushFanOut(pushTasks \ {task}, subs \ removed, attempts \union made)

ScanTags == (ScanIds \X {"email"} \X {0}) \union (ScanIds \X {"push"} \X SubIds)
NoPass == [op |-> "none"]
Capped(n) == IF n < 2 THEN n + 1 ELSE 2

ScanInit ==
  /\ scTasks = [id \in ScanIds |-> Absent]
  /\ scSubs = {}
  /\ scNow = 0
  /\ scLast = NoPass
  /\ scSent = [tag \in ScanTags |-> 0]
  /\ scOps = 0

\* A row of tasks is inserted or updated through the API.  The write may move the fire
\* time, so the deliveries counted for the row start again.
Scan_saveTask ==
  \E id \in ScanIds : \E row \in ScanRows(id) :
    /\ scOps < MaxScanOps
    /\ scOps' = scOps + 1
    /\ scTasks' = [scTasks EXCEPT ![id] = row]
    /\ scLast' = NoPass
    /\ scSent' = [tag \in ScanTags |-> IF tag[1] = id THEN 0 ELSE scSent[tag]]
    /\ UNCHANGED <<syncVars, notifVars, expVars, seriesVars, nonScanVars,
                   scSubs, scNow>>

\* storeSubscription: upsert on (user_id, endpoint).
Scan_storeSubscription ==
  \E id \in SubIds :
    /\ scOps < MaxScanOps
    /\ scOps' = scOps + 1
    /\ scSubs' = scSubs \union {SubRow(id)}
    /\ scLast' = NoPass
    /\ UNCHANGED <<syncVars, notifVars, expVars, seriesVars, nonScanVars,
                   scTasks, scNow, scSent>>

\* unsubscribeFromPush: delete where user_id and endpoint match.
Scan_unsubscribeFromPush ==
  \E sub \in scSubs :
    /\ scOps < MaxScanOps
    /\ scOps' = scOps + 1
    /\ scSubs' = scSubs \ {sub}
    /\ scLast' = NoPass
    /\ UNCHANGED <<syncVars, notifVars, expVars, seriesVars, nonScanVars,
                   scTasks, scNow, scSent>>

Scan_Tick ==
  /\ scNow < MaxScanTime
  /\ scNow' = scNow + 1
  /\ scLast' = NoPass
  /\ UNCHANGED <<syncVars, notifVars, expVars, seriesVars, nonScanVars,
                 scTasks, scSubs, scSent, scOps>>

\* One request to send-notifications: both queries, the email loop (a send through the
\* mail service may throw; it is caught per task), the push loop.
Scan_pass ==
  LET emailTasks == get_tasks_due_for_email_notifications(scTasks, scNow)
      pushTasks == get_tasks_due_for_notifications(scTasks, scNow)
      fan == pushFanOut(pushTasks, scSubs, {})
  IN \E emailFailed \in SUBSET {t.id : t \in emailTasks} :
       LET emailed == {t.id : t \in emailTasks} \ emailFailed
           pushed == {<<a[1], a[2]>> : a \in {x \in fan.attempts : x[3]}}
           delivered == {<<id, "email", 0>> : id \in emailed}
                          \union {<<a[1], "push", a[2]>> : a \in pushed}
       IN /\ scSubs' = fan.subs
          /\ scSent' = [tag \in ScanTags |->
                          IF tag \in delivered THEN Capped(scSent[tag]) ELSE scSent[tag]]
          /\ scLast' = [op |-> "pass", now |-> scNow,
                        email |-> {t.id : t \in emailTasks},
                        push |-> {t.id : t \in pushTasks},
                        emailsSent |-> Cardinality(emailed),
                        attempts |-> fan.attempts,
                        subsBefore |-> scSubs]
          /\ UNCHANGED <<syncVars, notifVars, expVars, seriesVars, nonScanVars,
                         scTasks, scNow, scOps>>

\* ---------------------------------------------------------------- API server, several users
\* The table tasks with its owners, and the requests of authenticated users.  req.user.id
\* is the caller; the body of a request is whatever the client sent.
AuthIds == {1, 2}
AuthNow == 1
AuthTitles == {"a", "b"}
AuthRows(Ids) == [id : Ids, user_id : Users, title : AuthTitles, updated_at : 0..AuthNow]

AuthInit ==
  /\ auTasks = [id \in AuthIds |-> Absent]
  /\ auLast = NoRead

\* select ... .eq('id', id).eq('user_id', userId)
OwnRow(tasks, id, userId) ==
  IF tasks[id] # Absent /\ tasks[id].user_id = userId THEN tasks[id] ELSE Absent

\* POST /api/tasks: the row is built by the server with user_id: req.user.id; the
\* database assigns the id.
Auth_postTask ==
  \E caller \in Users, title \in AuthTitles :
    /\ \E id \in AuthIds : auTasks[id] = Absent
    /\ LET id == CHOOSE i \in AuthIds : auTasks[i] = Absent /\ \A j \in AuthIds : auTasks[j] = Absent => i <= j
       IN /\ auTasks' = [auTasks EXCEPT ![id] = [id |-> id, user_id |-> caller, title |-> title,
                                                 updated_at |-> AuthNow]]
          /\ auLast' = [op |-> "post", caller |-> caller, id |-> id, status |-> "201",
                        before |-> auTasks, result |-> {auTasks'[id]}]
    /\ UNCHANGED <<syncVars, notifVars, expVars, seriesVars, nonAuthVars>>

\* GET /api/tasks: select * where user_id = req.user.id.
Auth_getTasks ==
  \E caller \in Users :
    /\ auLast' = [op |-> "get", caller |-> caller, id |-> 0, status |-> "200",
                  before |-> auTasks,
                  result |-> {auTasks[id] : id \in {k \in AuthIds : OwnRow(auTasks, k, caller) # Absent}}]
    /\ UNCHANGED <<syncVars, notifVars, expVars, seriesVars, nonAuthVars, auTasks>>

\* PUT /api/tasks/:id: id, user_id and created_at are taken out of the body; update where
\* id and user_id match, .select().single(): no row is an error of the query, answered 500.
Auth_putTask ==
  \E caller \in Users, id \in AuthIds, title \in AuthTitles :
    LET row == OwnRow(auTasks, id, caller)
    IN /\ auTasks' = IF row = Absent THEN auTasks
                     ELSE [auTasks EXCEPT ![id] = [row EXCEPT !.title = title,
                                                              !.updated_at = AuthNow]]
       /\ auLast' = [op |-> "put", caller |-> caller, id |-> id,
                     status |-> IF row = Absent THEN "500" ELSE "200",
                     before |-> auTasks,
                     result |-> IF row = Absent THEN {} ELSE {auTasks'[id]}]
       /\ UNCHANGED <<syncVars, notifVars, expVars, seriesVars, nonAuthVars>>

\* DELETE /api/tasks/:id: 404 when the caller has no such row, else delete where id and
\* user_id match.
Auth_deleteTask ==
  \E caller \in Users, id \in AuthIds :
    LET taskToDelete == OwnRow(auTasks, id, caller)
    IN /\ auTasks' = IF taskToDelete = Absent THEN auTasks
                     ELSE [auTasks EXCEPT ![id] = Absent]
       /\ auLast' = [op |-> "delete", caller |-> caller, id |-> id,
                     status |-> IF taskToDelete = Absent THEN "404" ELSE "204",
                     before |-> auTasks, result |-> {}]
       /\ UNCHANGED <<syncVars, notifVars, expVars, seriesVars, nonAuthVars>>

\* handleTaskCreate(data, userId): insert {...data, user_id: userId}; a duplicate id is an
\* error.  The result of a handler is the table and how the change ended.
Auth_handleTaskCreate(tasks, data, userId) ==
  IF tasks[data.id] # Absent THEN [tasks |-> tasks, end |-> "error"]
  ELSE [tasks |-> [tasks EXCEPT ![data.id] = [data EXCEPT !.user_id = userId]],
        end |-> "processed"]

\* handleTaskUpdate(data, userId, clientTimestamp, results): the conflict test on the
\* caller's row, then update {...data, updated_at: now} where id and user_id match.
Auth_handleTaskUpdate(tasks, data, userId, clientTimestamp) ==
  LET existingTask == OwnRow(tasks, data.id, userId)
  IN IF existingTask # Absent /\ existingTask.updated_at > clientTimestamp
     THEN [tasks |-> tasks, end |-> "conflict"]
     ELSE IF existingTask = Absent THEN [tasks |-> tasks, end |-> "processed"]
     ELSE [tasks |-> [tasks EXCEPT ![data.id] = [data EXCEPT !.updated_at = AuthNow]],
           end |-> "processed"]

\* handleTaskDelete(taskId, userId): delete where id and user_id match.
Auth_handleTaskDelete(tasks, taskId, userId) ==
  [tasks |-> IF OwnRow(tasks, taskId, userId) = Absent THEN tasks
             ELSE [tasks EXCEPT ![taskId] = Absent],
   end |-> "processed"]

\* POST /api/sync with one change for a task.
Auth_sync ==
  \E caller \in Users, action \in {"create", "update", "delete"},
     data \in AuthRows(AuthIds), clientTimestamp \in 0..AuthNow :
    LET R == CASE action = "create" -> Auth_handleTaskCreate(auTasks, data, caller)
               [] action = "update" ->
                    Auth_handleTaskUpdate(auTasks, data, caller, clientTimestamp)
               [] action = "delete" -> Auth_handleTaskDelete(auTasks, data.id, caller)
    IN /\ auTasks' = R.tasks
       /\ auLast' = [op |-> "sync", action |-> action, caller |-> caller, id |-> data.id,
                     status |-> R.end, before |-> auTasks, result |-> {}]
       /\ UNCHANGED <<syncVars, notifVars, expVars, seriesVars, nonAuthVars>>

\* ---------------------------------------------------------------- POST /api/sync-emails
\* calculateNotificationTime(dueDate, dueTime, notificationTime) of the API server, in
\* minutes: timingMap[notificationTime] || timingMap['10min'].
timingMap(notificationTime) ==
  CASE notificationTime = "3min" -> 3
    [] notificationTime = "5min" -> 5
    [] notificationTime = "10min" -> 10
    [] notificationTime = "15min" -> 15
    [] notificationTime = "20min" -> 20
    [] notificationTime = "25min" -> 25
    [] notificationTime = "30min" -> 30
    [] notificationTime = "45min" -> 45
    [] notificationTime = "50min" -> 50
    [] notificationTime = "1hour" -> 60
    [] notificationTime = "2hours" -> 120
    [] notificationTime = "1day" -> 1440
    [] OTHER -> 10

calculateNotificationTime(dueDateTime, notificationTime) ==
  dueDateTime - timingMap(notificationTime)

Abs(x) == IF x < 0 THEN 0 - x ELSE x

\* Send if within 5 minutes of scheduled time.
MailWindow == 5
MaxMailQueue == 2

\* A test that would not look at email_reminder; C33 tells it from emailEligible.
emailEligibleIgnoringFlag(task) == ~task.completed

\* !task.completed && task.email_reminder
emailEligible(task) == ~task.completed /\ task.email_reminder

\* The loop over emailQueue.  The result holds the positions reported in errors, the
\* positions an email was sent for, and the two counters.
RECURSIVE syncEmailsLoop(_, _, _, _, _)
syncEmailsLoop(tasks, userId, NOW, emailQueue, i) ==
  IF i > Len(emailQueue) THEN [processed |-> 0, sent |-> 0, errors |-> {}, dispatched |-> {}]
  ELSE LET rest == syncEmailsLoop(tasks, userId, NOW, emailQueue, i + 1)
           task == tasks[emailQueue[i]]
       IN IF task = Absent \/ task.user_id # userId
          THEN [rest EXCEPT !.errors = @ \cup {i}]
          ELSE IF emailEligible(task)
                  /\ Abs(calculateNotificationTime(task.due, task.notification_time) - NOW)
                       <= MailWindow
               THEN [rest EXCEPT !.processed = @ + 1, !.sent = @ + 1,
                                 !.dispatched = @ \cup {i}]
               ELSE [rest EXCEPT !.processed = @ + 1]

\* POST /api/sync-emails: the body is a list of {taskId, ...} the client queued.
Mail_syncEmails ==
  \E caller \in Users, emailQueue \in UNION {[1..n -> ScanIds] : n \in 0..MaxMailQueue} :
    LET results == syncEmailsLoop(scTasks, caller, scNow, emailQueue, 1)
    IN /\ scLast' = [op |-> "sync-emails", caller |-> caller, now |-> scNow,
                     emailQueue |-> emailQueue, processed |-> results.processed,
                     sent |-> results.sent, errors |-> results.errors,
                     dispatched |-> results.dispatched]
       /\ UNCHANGED <<syncVars, notifVars, expVars, seriesVars, nonScanVars,
                      scTasks, scSubs, scNow, scSent, scOps>>

\* No instance is being built.
NoInst == [op |-> "none"]
InstIdle == inSource = NoInst /\ inOut = NoInst

\* The two hooks as mounted for a signed-in user on a page that is online, no drain yet:
\* the effects have armed their one-second timers, and the listeners useOfflineSync
\* registered in its [user] effects hold the syncOfflineData of that render.
NoTrigger == [op |-> "none"]
FlightInit ==
  /\ tp = [isOnline |-> TRUE, isSyncing |-> FALSE, flight |-> 0, timer |-> TRUE]
  /\ os = [isOnline |-> TRUE, isSyncing |-> FALSE, flight |-> 0, timer |-> TRUE,
           timerClosure |-> [isOnline |-> TRUE, isSyncing |-> FALSE],
           listenerClosure |-> [isOnline |-> TRUE, isSyncing |-> FALSE]]
  /\ dfLast = NoTrigger

ExtInit == IdbInit /\ ScanInit /\ AuthInit /\ InstIdle /\ FlightInit

Init == InitCore /\ ExpanderIdle /\ SeriesInit /\ ExtInit

\* ---------------------------------------------------------------- environment
Tick ==
  /\ now < MaxTime
  /\ now' = now + 1
  /\ lastOp' = NoOp
  /\ lastDrain' = NoDrain
  /\ UNCHANGED <<online, localTasks, localLists, taskLists, syncQueue, remoteTasks, remoteLists,
                 usedIds, usedKeys, nextSeq, basis, serverWriter, notifVars, recVars>>

\* The browser's 'offline' event.
GoOffline ==
  /\ online
  /\ online' = FALSE
  /\ lastOp' = NoOp
  /\ lastDrain' = NoDrain
  /\ UNCHANGED <<now, localTasks, localLists, taskLists, syncQueue, remoteTasks, remoteLists,
                 usedIds, usedKeys, nextSeq, basis, serverWriter, notifVars, recVars>>

\* The browser's 'online' event.
GoOnline ==
  /\ ~online
  /\ online' = TRUE
  /\ lastOp' = NoOp
  /\ lastDrain' = NoDrain
  /\ UNCHANGED <<now, localTasks, localLists, taskLists, syncQueue, remoteTasks, remoteLists,
                 usedIds, usedKeys, nextSeq, basis, serverWriter, notifVars, recVars>>

\* Another device of the same user edits a task through PUT /api/tasks/:id.
OtherClientWrite ==
  \E id \in TaskIds :
    /\ remoteTasks[id] # Absent
    /\ remoteTasks' = [remoteTasks EXCEPT ![id] = [@ EXCEPT !.title = "c", !.updated_at = now]]
    /\ serverWriter' = [serverWriter EXCEPT ![id] = "other"]
    /\ lastOp' = NoOp
    /\ lastDrain' = NoDrain
    /\ UNCHANGED <<now, online, localTasks, localLists, taskLists, syncQueue, remoteLists,
                   usedIds, usedKeys, nextSeq, basis, notifVars, recVars>>

\* ---------------------------------------------------------------- TaskProvider: tasks
\* The result of a useTaskAPI call becomes the next state.
ApplyEff(eff) ==
  /\ localTasks' = eff.S.local
  /\ syncQueue' = eff.S.queue
  /\ remoteTasks' = eff.S.remote
  /\ usedIds' = eff.S.usedIds
  /\ usedKeys' = eff.S.usedKeys
  /\ nextSeq' = eff.S.nextSeq
  /\ basis' = eff.S.basis
  /\ serverWriter' = eff.S.writer
  /\ online' = eff.online
  /\ lastOp' = eff.op
  /\ lastDrain' = NoDrain

\* The reminder state a handler leaves; the next render's closures see the saved list.
ApplyReminders(N) ==
  /\ N.nextNid <= MaxNid
  /\ persisted' = N.persisted
  /\ scheduledNotifications' = N.persisted
  /\ timers' = N.timers
  /\ nextNid' = N.nextNid
  /\ shown' = N.shown
  /\ superseded' = N.superseded
  /\ lateShown' = N.lateShown

\* The uuid of the queue item, or 0 when the call enqueues nothing.
KeyChoices == (QueueKeys \ usedKeys) \cup {0}

\* What the user enters in the runs about synchronisation: no reminder wanted.
SyncTaskInputs == {Fields("a", 0, "10min", FALSE, FALSE)}

SyncUpdates == {[title |-> "b"]}

\* What the user enters in the runs about reminders: due at minute 6, reminder 5 minutes
\* before; later the lead time is changed or the task completed.
ReminderTaskInputs == {Fields("a", 6, "5min", TRUE, FALSE)}

ReminderUpdates == {[notification_time |-> "3min"], [completed |-> TRUE]}

\* addTask(task), recurrence 'none': apiCreateTask, then scheduleTaskNotification(newTask).
\* net is the fate of the request, onlineAfter is navigator.onLine in the catch block.
addTask(F, Nets) ==
  \E f \in F, net \in Nets, onlineAfter \in BOOLEAN, key \in KeyChoices :
    /\ online \/ net = "ok"
    /\ (net = "ok") => onlineAfter
    /\ Cardinality(TaskIds \ usedIds) >= (IF online /\ net = "lost" /\ onlineAfter THEN 2 ELSE 1)
    /\ LET eff == createTaskEff(f, net, onlineAfter, key)
           newTask == eff.ret
           N == IF newTask # Absent /\ newTask.push_notification /\ ~newTask.completed
                THEN scheduleTaskNotification(Reminders, scheduledNotifications, newTask, 0)
                ELSE Reminders
       IN eff.op.enq = (key # 0) /\ ApplyEff(eff) /\ ApplyReminders(N)
    /\ UNCHANGED <<now, localLists, taskLists, remoteLists, swVars, recVars>>

\* updateTask(id, updates) of a task that does not recur: apiUpdateTask, then
\* updateTaskNotification(updatedTask).  Nothing follows a thrown apiUpdateTask.
updateTask(U, Nets) ==
  \E id \in usedIds \cap TaskIds, upd \in U, net \in Nets, onlineAfter \in BOOLEAN,
     key \in KeyChoices :
    /\ online \/ net = "ok"
    /\ (net = "ok") => onlineAfter
    /\ LET eff == updateTaskEff(id, upd, net, onlineAfter, key)
           updatedTask == eff.ret
           N == IF updatedTask # Absent
                THEN updateTaskNotification(Reminders, scheduledNotifications, updatedTask)
                ELSE Reminders
       IN eff.op.enq = (key # 0) /\ ApplyEff(eff) /\ ApplyReminders(N)
    /\ UNCHANGED <<now, localLists, taskLists, remoteLists, swVars, recVars>>

\* deleteTask(id) of a task that does not recur: apiDeleteTask, then
\* cancelTaskNotifications(id).  The React state 'tasks' is taken to hold the tasks the
\* local store returns.
deleteTask(Nets) ==
  \E id \in usedIds \cap TaskIds, net \in Nets, onlineAfter \in BOOLEAN, key \in KeyChoices :
    /\ online \/ net = "ok"
    /\ (net = "ok") => onlineAfter
    /\ LET eff == deleteTaskEff(id, net, onlineAfter, key)
           N == IF ~eff.op.thrown
                THEN cancelTaskNotifications(Reminders, scheduledNotifications, id)
                ELSE Reminders
       IN eff.op.enq = (key # 0) /\ ApplyEff(eff) /\ ApplyReminders(N)
    /\ UNCHANGED <<now, localLists, taskLists, remoteLists, swVars, recVars>>

\* refreshTasks.  Offline: loadOfflineData shows the local rows and schedules a reminder
\* for each local task that wants one.  Online: fetchTasks (a failed request returns the
\* cached tasks and changes nothing), then syncNotifications.
refreshTasks ==
  \E fetchOk \in BOOLEAN :
    /\ online \/ fetchOk
    /\ localTasks' = IF online /\ fetchOk THEN saveTasks(localTasks, remoteTasks) ELSE localTasks
    /\ basis' = IF online /\ fetchOk THEN fetchBasis(basis, remoteTasks) ELSE basis
    /\ taskLists' = IF online THEN taskLists ELSE getTasks(localLists)
    /\ LET snap == scheduledNotifications
           N == IF online
                THEN syncNotifications(Reminders, snap, remoteTasks, online, fetchOk)
                ELSE ScheduleAll(Reminders, snap, localTasks,
                                 {id \in getTasks(localTasks) :
                                    localTasks[id].push_notification /\ ~localTasks[id].completed})
       IN ApplyReminders(N)
    /\ lastOp' = NoOp
    /\ lastDrain' = NoDrain
    /\ UNCHANGED <<now, online, localLists, syncQueue, remoteTasks, remoteLists,
                   usedIds, usedKeys, nextSeq, serverWriter, swVars, recVars>>

\* A timer armed by scheduleLocalNotification goes off: showTaskNotification with the
\* closure the timer was armed in.
TimerFire ==
  \E t \in timers :
    /\ now >= t.n.scheduledTime
    /\ ApplyReminders(showTaskNotification(
                        [Reminders EXCEPT !.timers = @ \ {t}, !.permission = t.permission],
                        t.snap, t.n))
    /\ lastOp' = NoOp
    /\ lastDrain' = NoDrain
    /\ UNCHANGED <<now, online, localTasks, localLists, taskLists, syncQueue, remoteTasks,
                   remoteLists, usedIds, usedKeys, nextSeq, basis, serverWriter, swVars, recVars>>

\* ---------------------------------------------------------------- snooze
\* The useNotifications() instances of the page: TaskProvider's (instance 1), the one of
\* useRecurringTasks and the one of NotificationPrompt.  Each registers its own listener
\* for SNOOZE_TASK in its mount effect.
HookInstances == 3

\* scheduledNotifications as the closures of a hook's first render hold it.
MountClosure == <<>>

\* The minutes of the 'snooze' notification action.
SnoozeMinutes == 5

\* handleTaskSnooze(taskId, minutes) of one instance, run with the closures of its first
\* render.  task is what the query of the tasks table returned (Absent: null).
handleTaskSnoozeEff(N, taskId, minutes, task) ==
  LET N1 == cancelTaskNotifications(N, MountClosure, taskId)
      snoozeTime == now + minutes
  IN IF task # Absent THEN scheduleTaskNotification(N1, MountClosure, task, snoozeTime)
     ELSE N1

\* The listeners of the instances ranked k .. HookInstances, one after the other.
RECURSIVE SnoozeAll(_, _, _, _, _)
SnoozeAll(N, k, taskId, minutes, task) ==
  IF k > HookInstances THEN N
  ELSE SnoozeAll(handleTaskSnoozeEff(N, taskId, minutes, task), k + 1, taskId, minutes, task)

\* The user picks 'Snooze 5min' on a shown reminder of a task of theirs: the service
\* worker's snoozeTask posts SNOOZE_TASK to the page, where the listener of every hook
\* instance runs handleTaskSnooze and TaskProvider's own listener shows a toast.  The
\* listeners run in any order; rank is the place of TaskProvider's instance in it.  The
\* IndexedDB list is what the last listener saved, TaskProvider's React state what its
\* own instance saved.  queryOk is the fate of the query of the tasks table.
handleTaskSnooze ==
  \E taskId \in usedIds \cap TaskIds, rank \in 1..HookInstances, queryOk \in BOOLEAN :
    /\ \/ \E n \in shown : n.taskId = taskId
       \/ \E n \in swShown : n.taskId = taskId
    /\ nextNid <= MaxNid
    /\ LET task == IF online /\ queryOk THEN remoteTasks[taskId] ELSE Absent
           N0 == [Reminders EXCEPT !.permission = "default"]
           N == SnoozeAll(N0, 1, taskId, SnoozeMinutes, task)
       IN /\ persisted' = N.persisted
          /\ scheduledNotifications' =
               IF N.nextNid = nextNid THEN <<>>
               ELSE <<[N.persisted[1] EXCEPT !.id = nextNid + rank]>>
          /\ timers' = N.timers
          /\ nextNid' = N.nextNid
          /\ shown' = N.shown
          /\ superseded' = N.superseded
          /\ lateShown' = N.lateShown
          /\ lastOp' = [op |-> "snooze", id |-> taskId, at |-> now, minutes |-> SnoozeMinutes,
                        found |-> (task # Absent /\ task.push_notification /\ ~task.completed),
                        timersBefore |-> timers]
    /\ lastDrain' = NoDrain
    /\ UNCHANGED <<now, online, localTasks, localLists, taskLists, syncQueue, remoteTasks,
                   remoteLists, usedIds, usedKeys, nextSeq, basis, serverWriter, swVars, recVars>>

\* ---------------------------------------------------------------- TaskProvider: lists
\* addTaskList(name): online, insert and cache; a failed insert is thrown.  Offline, save
\* with sync_status 'pending' and enqueue a create.
addTaskList ==
  \E net \in {"ok", "fail"}, key \in KeyChoices :
    /\ ListIds \ usedIds # {}
    /\ online \/ net = "ok"
    /\ (key # 0) = ~online
    /\ LET id == FreshId(ListIds, usedIds)
           listData == ListRec(id, "synced", FALSE, now, now)
           offlineTaskList == ListRec(id, "pending", TRUE, now, now)
       IN /\ usedIds' = usedIds \cup {id}
          /\ IF online
             THEN /\ remoteLists' = IF net = "ok" THEN [remoteLists EXCEPT ![id] = listData]
                                    ELSE remoteLists
                  /\ localLists' = IF net = "ok" THEN [localLists EXCEPT ![id] = listData]
                                   ELSE localLists
                  /\ taskLists' = IF net = "ok" THEN taskLists \cup {id} ELSE taskLists
                  /\ UNCHANGED <<syncQueue, usedKeys, nextSeq>>
                  /\ lastOp' = [op |-> "create", type |-> "task_list", id |-> id,
                                offline |-> FALSE, failed |-> net # "ok", thrown |-> net # "ok",
                                enq |-> FALSE, key |-> 0, lost |-> FALSE]
             ELSE /\ localLists' = [localLists EXCEPT ![id] = offlineTaskList]
                  /\ syncQueue' = addToSyncQueue(syncQueue, key, "task_list", "create",
                                                 offlineTaskList, nextSeq + 1, -1)
                  /\ usedKeys' = usedKeys \cup {key}
                  /\ nextSeq' = nextSeq + 1
                  /\ taskLists' = taskLists \cup {id}
                  /\ UNCHANGED remoteLists
                  /\ lastOp' = [op |-> "create", type |-> "task_list", id |-> id,
                                offline |-> TRUE, failed |-> FALSE, thrown |-> FALSE,
                                enq |-> TRUE, key |-> key, lost |-> FALSE]
    /\ lastDrain' = NoDrain
    /\ UNCHANGED <<now, online, localTasks, remoteTasks, basis, serverWriter, notifVars, recVars>>

\* deleteTaskList(id): online, delete the row and the cached copy.  Offline, enqueue a
\* delete of the list found in the React state and drop it from that state.
deleteTaskList ==
  \E id \in ListIds, net \in {"ok", "fail"}, key \in KeyChoices :
    /\ id \in usedIds
    /\ online \/ net = "ok"
    /\ (key # 0) = (~online /\ id \in taskLists)
    /\ IF online
       THEN /\ remoteLists' = IF net = "ok" THEN [remoteLists EXCEPT ![id] = Absent]
                              ELSE remoteLists
            /\ localLists' = IF net = "ok" THEN [localLists EXCEPT ![id] = Absent]
                             ELSE localLists
            /\ taskLists' = IF net = "ok" THEN taskLists \ {id} ELSE taskLists
            /\ UNCHANGED <<syncQueue, usedKeys, nextSeq>>
            /\ lastOp' = [op |-> "delete", type |-> "task_list", id |-> id,
                          offline |-> FALSE, failed |-> net # "ok", thrown |-> net # "ok",
                          enq |-> FALSE, key |-> 0, lost |-> FALSE]
       ELSE IF id \in taskLists
       THEN /\ syncQueue' = addToSyncQueue(syncQueue, key, "task_list", "delete",
                                           localLists[id], nextSeq + 1, -1)
            /\ usedKeys' = usedKeys \cup {key}
            /\ nextSeq' = nextSeq + 1
            /\ taskLists' = taskLists \ {id}
            /\ UNCHANGED <<localLists, remoteLists>>
            /\ lastOp' = [op |-> "delete", type |-> "task_list", id |-> id,
                          offline |-> TRUE, failed |-> FALSE, thrown |-> FALSE,
                          enq |-> TRUE, key |-> key, lost |-> FALSE]
       ELSE /\ UNCHANGED <<syncQueue, usedKeys, nextSeq, taskLists, localLists, remoteLists>>
            /\ lastOp' = NoOp
    /\ lastDrain' = NoDrain
    /\ UNCHANGED <<now, online, localTasks, remoteTasks, usedIds, basis, serverWriter, notifVars, recVars>>

\* ---------------------------------------------------------------- drain actions
\* TaskProvider.syncOfflineData: syncOfflineChanges (POST /api/sync with the whole queue,
\* removal of the first 'processed' items, refetch on conflicts), then refreshTasks (which
\* ends with syncNotifications) and refreshTaskLists, then syncNotifications once more.
\* A thrown syncOfflineChanges ends the handler.  net is the fate of the POST, fetchOk that
\* of the queries after it.
syncOfflineData ==
  \E net \in NetOutcomes, fetchOk \in BOOLEAN :
    /\ online
    /\ LET sent == getSyncQueue(syncQueue)
           R == SyncEndpoint(Changes(sent))
           reached == sent # <<>> /\ net # "fail"
           answered == sent = <<>> \/ net = "ok"
           snap == scheduledNotifications
           N == IF answered
                THEN syncNotifications(
                       syncNotifications(Reminders, snap, remoteTasks', online, fetchOk),
                       snap, remoteTasks', online, fetchOk)
                ELSE Reminders
       IN /\ (sent = <<>>) => net = "ok"
          /\ answered \/ fetchOk
          /\ remoteTasks' = IF reached THEN R.tasks ELSE remoteTasks
          /\ remoteLists' = IF reached THEN R.lists ELSE remoteLists
          /\ serverWriter' = IF reached THEN R.writer ELSE serverWriter
          /\ syncQueue' = IF sent # <<>> /\ net = "ok"
                          THEN RemoveProcessed(syncQueue, sent, R.processed) ELSE syncQueue
          /\ localTasks' = IF answered /\ fetchOk THEN saveTasks(localTasks, remoteTasks')
                           ELSE localTasks
          /\ basis' = IF answered /\ fetchOk THEN fetchBasis(basis, remoteTasks') ELSE basis
          /\ localLists' = IF answered /\ fetchOk THEN saveTaskLists(localLists, remoteLists')
                           ELSE localLists
          /\ taskLists' = IF ~answered THEN taskLists
                          ELSE IF fetchOk THEN {id \in ListIds : remoteLists'[id] # Absent}
                          ELSE getTasks(localLists)
          /\ ApplyReminders(N)
          /\ lastDrain' = [kind |-> "batch", net |-> net, fetchOk |-> fetchOk, sent |-> sent,
                           log |-> IF reached THEN R.log ELSE <<>>,
                           processed |-> IF reached THEN R.processed ELSE 0,
                           errors |-> IF reached THEN R.errors ELSE <<>>]
    /\ lastOp' = NoOp
    /\ UNCHANGED <<now, online, usedIds, usedKeys, nextSeq, swVars, recVars>>

\* useOfflineSync.syncOfflineData: the per-item loop, then fetchAndCacheServerData.
OS_syncOfflineData ==
  \E throws \in SUBSET {e.key : e \in syncQueue}, fetchOk \in BOOLEAN :
    /\ online
    /\ LET sent == getSyncQueue(syncQueue)
           R == ItemLoop([tasks |-> remoteTasks, lists |-> remoteLists, writer |-> serverWriter,
                          queue |-> syncQueue, dropped |-> {}], sent, 1, throws)
       IN /\ remoteTasks' = R.tasks
          /\ remoteLists' = R.lists
          /\ serverWriter' = R.writer
          /\ syncQueue' = R.queue
          /\ localTasks' = IF fetchOk
                           THEN [id \in TaskIds |->
                                   IF R.tasks[id] # Absent
                                   THEN [R.tasks[id] EXCEPT !.sync_status = "synced"]
                                   ELSE localTasks[id]]
                           ELSE localTasks
          /\ basis' = IF fetchOk THEN fetchBasis(basis, R.tasks) ELSE basis
          /\ localLists' = IF fetchOk
                           THEN [id \in ListIds |->
                                   IF R.lists[id] # Absent
                                   THEN [R.lists[id] EXCEPT !.sync_status = "synced"]
                                   ELSE localLists[id]]
                           ELSE localLists
          /\ lastDrain' = [kind |-> "items", net |-> "ok", fetchOk |-> fetchOk, sent |-> sent,
                           log |-> <<>>, processed |-> Len(sent) - Cardinality(throws),
                           errors |-> SelectSeq([i \in 1..Len(sent) |-> sent[i].key],
                                                LAMBDA k : k \in throws)]
    /\ lastOp' = NoOp
    /\ UNCHANGED <<now, online, taskLists, usedIds, usedKeys, nextSeq, notifVars, recVars>>

\* ---------------------------------------------------------------- service worker
\* The times a SCHEDULE_NOTIFICATION message may ask for.
SwTimes == 0..(MaxTime + 1)

\* The state of the service worker a handler works on.
ServiceWorker ==
  [map |-> swMap, timers |-> swTimers, next |-> swNext, shown |-> swShown, queue |-> swQueue]

\* showScheduledNotification(notificationData); tid 0: shown by no timer.
showScheduledNotification(W, notificationData) ==
  [W EXCEPT !.shown = @ \cup {[tid |-> 0, taskId |-> notificationData.taskId,
                               scheduledTime |-> notificationData.scheduledTime]}]

\* scheduleNotification(notificationData): show at once when the time has passed; else arm
\* a timer and put its handle in the Map under taskId.
scheduleNotification(W, notificationData) ==
  IF notificationData.scheduledTime - now <= 0
  THEN showScheduledNotification(W, notificationData)
  ELSE [W EXCEPT !.next = @ + 1,
                 !.timers = @ \cup {[tid |-> W.next + 1, taskId |-> notificationData.taskId,
                                     scheduledTime |-> notificationData.scheduledTime]},
                 !.map = [@ EXCEPT ![notificationData.taskId] = W.next + 1]]

\* The loop of processNotificationQueue: a queued notification whose time has passed is
\* shown, the others are scheduled.
RECURSIVE processQueued(_, _, _)
processQueued(W, queue, i) ==
  IF i > Len(queue) THEN W
  ELSE processQueued(IF queue[i].scheduledTime <= now
                     THEN showScheduledNotification(W, queue[i])
                     ELSE scheduleNotification(W, queue[i]),
                     queue, i + 1)

\* message SCHEDULE_NOTIFICATION -> scheduleNotification(data).
SW_scheduleNotification ==
  \E taskId \in TaskIds, scheduledTime \in SwTimes :
    /\ swNext < MaxNid
    /\ LET W == scheduleNotification(ServiceWorker,
                                     [taskId |-> taskId, scheduledTime |-> scheduledTime])
       IN /\ swMap' = W.map
          /\ swTimers' = W.timers
          /\ swNext' = W.next
          /\ swShown' = W.shown
    /\ UNCHANGED swQueue
    /\ lastOp' = NoOp
    /\ lastDrain' = NoDrain
    /\ UNCHANGED <<now, online, localTasks, localLists, taskLists, syncQueue, remoteTasks,
                   remoteLists, usedIds, usedKeys, nextSeq, basis, serverWriter, pageVars, recVars>>

\* message QUEUE_NOTIFICATION -> queueNotification(data).
SW_queueNotification ==
  \E taskId \in TaskIds, scheduledTime \in SwTimes :
    /\ Len(swQueue) < MaxQueued
    /\ swQueue' = Append(swQueue, [taskId |-> taskId, scheduledTime |-> scheduledTime])
    /\ lastOp' = NoOp
    /\ lastDrain' = NoDrain
    /\ UNCHANGED <<now, online, localTasks, localLists, taskLists, syncQueue, remoteTasks,
                   remoteLists, usedIds, usedKeys, nextSeq, basis, serverWriter, pageVars, recVars,
                   swMap, swTimers, swNext, swShown>>

\* message PROCESS_NOTIFICATION_QUEUE -> processNotificationQueue(): nothing when the queue
\* is empty; else every queued notification is processed and leaves the queue.
SW_processNotificationQueue ==
  /\ swQueue # <<>>
  /\ LET W == processQueued(ServiceWorker, swQueue, 1)
     IN /\ W.next <= MaxNid
        /\ swMap' = W.map
        /\ swTimers' = W.timers
        /\ swNext' = W.next
        /\ swShown' = W.shown
  /\ swQueue' = <<>>
  /\ lastOp' = NoOp
  /\ lastDrain' = NoDrain
  /\ UNCHANGED <<now, online, localTasks, localLists, taskLists, syncQueue, remoteTasks,
                 remoteLists, usedIds, usedKeys, nextSeq, basis, serverWriter, pageVars, recVars>>

\* message CANCEL_NOTIFICATION -> cancelNotification(taskId): clearTimeout of the handle
\* the Map holds for taskId, and the task's notifications leave the queue.
SW_cancelNotification ==
  \E taskId \in TaskIds :
    /\ swMap[taskId] # 0 \/ \E i \in 1..Len(swQueue) : swQueue[i].taskId = taskId
    /\ swTimers' = {t \in swTimers : t.tid # swMap[taskId]}
    /\ swMap' = [swMap EXCEPT ![taskId] = 0]
    /\ swQueue' = SelectSeq(swQueue, LAMBDA n : n.taskId # taskId)
    /\ lastOp' = NoOp
    /\ lastDrain' = NoDrain
    /\ UNCHANGED <<now, online, localTasks, localLists, taskLists, syncQueue, remoteTasks,
                   remoteLists, usedIds, usedKeys, nextSeq, basis, serverWriter, pageVars, recVars,
                   swNext, swShown>>

\* A timer of the service worker goes off: showScheduledNotification, then
\* scheduledNotifications.delete(taskId).
SW_TimerFire ==
  \E t \in swTimers :
    /\ now >= t.scheduledTime
    /\ swShown' = swShown \cup {t}
    /\ swTimers' = swTimers \ {t}
    /\ swMap' = [swMap EXCEPT ![t.taskId] = 0]
    /\ lastOp' = NoOp
    /\ lastDrain' = NoDrain
    /\ UNCHANGED <<now, online, localTasks, localLists, taskLists, syncQueue, remoteTasks,
                   remoteLists, usedIds, usedKeys, nextSeq, basis, serverWriter, pageVars, recVars,
                   swNext, swQueue>>

\* ---------------------------------------------------------------- recurrence expander
\* A calendar date is [y, m, d].  The JavaScript Date of the expanders is taken in UTC,
\* where new Date('yyyy-mm-dd'), getDate / setDate / setMonth and toISOString agree on
\* the day.
IsLeap(y) == (y % 4 = 0 /\ y % 100 # 0) \/ y % 400 = 0

DaysInMonth(y, m) ==
  CASE m \in {1, 3, 5, 7, 8, 10, 12} -> 31
    [] m \in {4, 6, 9, 11} -> 30
    [] OTHER -> IF IsLeap(y) THEN 29 ELSE 28

\* new Date(y, m, d) with m and d beyond their ranges: Date carries the excess months
\* into the year and the excess days into the following months.
RECURSIVE MakeDate(_, _, _)
MakeDate(y, m, d) ==
  IF m > 12 THEN MakeDate(y + 1, m - 12, d)
  ELSE IF d > DaysInMonth(y, m) THEN MakeDate(y, m + 1, d - DaysInMonth(y, m))
  ELSE [y |-> y, m |-> m, d |-> d]

\* date.setDate(n) and date.setMonth(base.getMonth() + i).
setDate(date, n) == MakeDate(date.y, date.m, n)

setMonth(date, m) == MakeDate(date.y, m, date.d)

\* a > b on Dates.
After(a, b) ==
  \/ a.y > b.y
  \/ a.y = b.y /\ a.m > b.m
  \/ a.y = b.y /\ a.m = b.m /\ a.d > b.d

\* getInstanceCount(recurrenceType); the server's generateRecurringInstances has the same
\* numbers.
getInstanceCount(recurrenceType) ==
  CASE recurrenceType = "daily" -> 30
    [] recurrenceType = "weekly" -> 52
    [] recurrenceType = "monthly" -> 12
    [] OTHER -> 0

\* instanceDate of the i-th round of the expanders' loop.
instanceDate(baseDate, recurrenceType, i) ==
  CASE recurrenceType = "daily" -> setDate(baseDate, baseDate.d + i)
    [] recurrenceType = "weekly" -> setDate(baseDate, baseDate.d + i * 7)
    [] recurrenceType = "monthly" -> setMonth(baseDate, baseDate.m + i)

\* The loop of the client's generateRecurringInstances: it breaks at the first instance
\* later than oneYearFromNow.
RECURSIVE clientLoop(_, _, _, _, _, _)
clientLoop(baseDate, recurrenceType, instanceCount, oneYearFromNow, i, instances) ==
  IF i > instanceCount THEN instances
  ELSE LET date == instanceDate(baseDate, recurrenceType, i)
       IN IF After(date, oneYearFromNow) THEN instances
          ELSE clientLoop(baseDate, recurrenceType, instanceCount, oneYearFromNow, i + 1,
                          Append(instances, date))

\* generateRecurringInstances of useRecurringTasks: the due dates of the instances.
generateRecurringInstances(due_date, recurrenceType, instanceCount, today) ==
  IF recurrenceType = "none" THEN <<>>
  ELSE clientLoop(due_date, recurrenceType, instanceCount,
                  MakeDate(today.y + 1, today.m, today.d), 1, <<>>)

\* generateRecurringInstances of the server: the due dates of the instances it inserts.
Server_generateRecurringInstances(due_date, recurrence) ==
  [i \in 1..getInstanceCount(recurrence) |-> instanceDate(due_date, recurrence, i)]

\* The parents' due dates and the days of generation the expanders are run on.
ExpandDues ==
  {[y |-> 2024, m |-> 1, d |-> 31], [y |-> 2024, m |-> 2, d |-> 29],
   [y |-> 2024, m |-> 6, d |-> 3], [y |-> 2024, m |-> 6, d |-> 5],
   [y |-> 2024, m |-> 12, d |-> 31], [y |-> 2025, m |-> 6, d |-> 1]}

ExpandTodays ==
  {[y |-> 2024, m |-> 1, d |-> 31], [y |-> 2024, m |-> 6, d |-> 3],
   [y |-> 2025, m |-> 1, d |-> 15]}

ExpandInputs ==
  [recurrence : {"daily", "weekly", "monthly"}, due_date : ExpandDues, today : ExpandTodays,
   side : {"client", "server"}, done : {FALSE}]

\* One call of an expander: the client's, as createRecurringTask makes it, or the
\* server's.
Expand ==
  /\ expIn.recurrence # "none"
  /\ ~expIn.done
  /\ expOut' = IF expIn.side = "client"
               THEN generateRecurringInstances(expIn.due_date, expIn.recurrence,
                                               getInstanceCount(expIn.recurrence), expIn.today)
               ELSE Server_generateRecurringInstances(expIn.due_date, expIn.recurrence)
  /\ expIn' = [expIn EXCEPT !.done = TRUE]
  /\ UNCHANGED <<syncVars, notifVars, seriesVars, extVars>>

\* ---------------------------------------------------------------- recurring series
\* The handlers of TaskProvider on tasks that carry the recurrence columns.  The stores of
\* these tasks are kept apart from the stores above; requests succeed when the page is
\* online, and the drain sends the queue in the order it was filled.

\* new Date() of the client and CURRENT_DATE of the database.
Today == [y |-> 2024, m |-> 6, d |-> 3]

\* A task row; recurrence_id 0 and list_id 0 stand for null.
SeriesRow(id, due_date, recurrence, recurrence_id, is_recurring_parent, completed, list_id, sync_status) ==
  [id |-> id, due_date |-> due_date, recurrence |-> recurrence,
   recurrence_id |-> recurrence_id, is_recurring_parent |-> is_recurring_parent,
   completed |-> completed, list_id |-> list_id, sync_status |-> sync_status]

\* The stores a handler works on.
Series ==
  [local |-> rLocal, tasks |-> rTasks, queue |-> rQueue, remote |-> rRemote,
   localLists |-> rLocalLists, remoteLists |-> rRemoteLists, taskLists |-> rTaskLists,
   nextId |-> rNextId,
   addedOnline |-> rAddedOnline, deleted |-> rDeleted, deletedLists |-> rDeletedLists]

\* store.put(row) of IndexedDB, and an upsert of a row set.
putRow(rows, row) == {r \in rows : r.id # row.id} \cup {row}

\* indexedDBManager.getTasks: the rows not marked deleted.
visibleTasks(rows) == {r \in rows : r.sync_status # "deleted"}

\* indexedDBManager.addToSyncQueue({type, action, data}).
enqueue(S, type, action, data) ==
  [S EXCEPT !.queue = Append(@, [type |-> type, action |-> action, data |-> data])]

\* saveRecurringInstances over the instances generateRecurringInstances built for the
\* due dates: each instance is saved and a create is enqueued for it, in the order of
\* the dates.
saveRecurringInstances(S, parentTask, dates) ==
  LET instance(i) == SeriesRow(S.nextId + i, dates[i], "none", parentTask.id, FALSE, FALSE,
                               parentTask.list_id, "pending")
  IN [S EXCEPT !.local = @ \cup {instance(i) : i \in 1..Len(dates)},
               !.queue = @ \o [i \in 1..Len(dates) |->
                                [type |-> "task", action |-> "create", data |-> instance(i)]],
               !.nextId = @ + Len(dates)]

\* createRecurringTask(taskData): the parent is saved and enqueued, then its instances.
createRecurringTask(S, taskData) ==
  LET parentTask == [taskData EXCEPT !.id = S.nextId + 1, !.is_recurring_parent = TRUE,
                                     !.sync_status = "pending"]
      S1 == enqueue([S EXCEPT !.local = putRow(@, parentTask), !.nextId = @ + 1],
                    "task", "create", parentTask)
      dates == generateRecurringInstances(parentTask.due_date, taskData.recurrence,
                                          getInstanceCount(taskData.recurrence), Today)
  IN [S |-> saveRecurringInstances(S1, parentTask, dates), ret |-> parentTask]

\* The instances the server's generateRecurringInstances(parentId, recurrence, taskData)
\* inserts; the database gives each a new id.
insertInstances(S, parentId, taskData, dates) ==
  [S EXCEPT !.remote = @ \cup {[taskData EXCEPT !.id = S.nextId + i,
                                                !.due_date = dates[i],
                                                !.recurrence_id = parentId,
                                                !.is_recurring_parent = FALSE,
                                                !.recurrence = "none"] :
                                 i \in 1..Len(dates)},
            !.nextId = @ + Len(dates)]

\* The foreign key of tasks.list_id: a task names no list, or a list of task_lists.
ListKeyHolds(S, row) == row.list_id = 0 \/ row.list_id \in S.remoteLists

\* handleTaskCreate(data): insert (an id that exists, or a list that does not, is an
\* error), then the server's expander when data is a recurring parent.
Series_handleTaskCreate(S, data) ==
  LET taskData == [data EXCEPT !.sync_status = "synced"]
  IN IF (\E r \in S.remote : r.id = data.id) \/ ~ListKeyHolds(S, data)
     THEN [S |-> S, ok |-> FALSE]
     ELSE [S |-> IF data.recurrence # "none" /\ data.is_recurring_parent
                 THEN insertInstances([S EXCEPT !.remote = @ \cup {taskData}], data.id,
                                      taskData,
                                      Server_generateRecurringInstances(data.due_date,
                                                                        data.recurrence))
                 ELSE [S EXCEPT !.remote = @ \cup {taskData}],
           ok |-> TRUE]

\* handleTaskDelete(taskId): the row with that id.
Series_handleTaskDelete(S, taskId) ==
  [S |-> [S EXCEPT !.remote = {r \in @ : r.id # taskId}], ok |-> TRUE]

\* due_date + interval '1 day' / '1 week' / '1 month' of the database: a month added
\* keeps the day of the month or takes the last day of a shorter month.
addInterval(date, recurrence) ==
  CASE recurrence = "daily" -> setDate(date, date.d + 1)
    [] recurrence = "weekly" -> setDate(date, date.d + 7)
    [] recurrence = "monthly" ->
         LET y == IF date.m = 12 THEN date.y + 1 ELSE date.y
             m == IF date.m = 12 THEN 1 ELSE date.m + 1
         IN [y |-> y, m |-> m,
             d |-> IF date.d > DaysInMonth(y, m) THEN DaysInMonth(y, m) ELSE date.d]

\* Trigger handle_recurring_task_completion, AFTER UPDATE of a row, OLD being oldRow.
handle_recurring_task_completion(S, oldRow, newRow) ==
  IF newRow.completed /\ ~oldRow.completed /\ newRow.recurrence # "none"
  THEN LET next_due_date == addInterval(newRow.due_date, newRow.recurrence)
           series == IF newRow.recurrence_id # 0 THEN newRow.recurrence_id ELSE newRow.id
           existing_next_task_count ==
             Cardinality({r \in S.remote : r.recurrence_id = series
                                           /\ r.due_date = next_due_date /\ ~r.completed})
       IN IF existing_next_task_count = 0
             /\ ~After(next_due_date, [Today EXCEPT !.y = @ + 1])
          THEN [S EXCEPT !.remote = @ \cup {SeriesRow(S.nextId + 1, next_due_date, "none",
                                                      series, FALSE, FALSE, newRow.list_id,
                                                      "synced")},
                         !.nextId = @ + 1]
          ELSE S
  ELSE S

\* UPDATE tasks SET updates WHERE id = id, with the trigger; updates is a record of
\* columns.  found tells whether a row was there.
updateRemoteRow(S, id, updates) ==
  IF \E r \in S.remote : r.id = id
  THEN LET oldRow == CHOOSE r \in S.remote : r.id = id
           newRow == [c \in DOMAIN oldRow |-> IF c \in DOMAIN updates THEN updates[c] ELSE oldRow[c]]
       IN [S |-> handle_recurring_task_completion([S EXCEPT !.remote = putRow(@, newRow)],
                                                  oldRow, newRow),
           found |-> TRUE, row |-> newRow]
  ELSE [S |-> S, found |-> FALSE, row |-> Absent]

\* handleTaskUpdate(data): the client's version is taken as not older than the server's;
\* an update of no row is no error.
Series_handleTaskUpdate(S, data) ==
  [S |-> updateRemoteRow(S, data.id, [data EXCEPT !.sync_status = "synced"]).S, ok |-> TRUE]

\* handleTaskListDelete(listId): the list row; the foreign key of tasks.list_id cascades.
Series_handleTaskListDelete(S, listId) ==
  [S |-> [S EXCEPT !.remoteLists = @ \ {listId},
                   !.remote = {r \in @ : r.list_id # listId}],
   ok |-> TRUE]

\* handleTaskListCreate(data).
Series_handleTaskListCreate(S, listId) ==
  IF listId \in S.remoteLists THEN [S |-> S, ok |-> FALSE]
  ELSE [S |-> [S EXCEPT !.remoteLists = @ \cup {listId}], ok |-> TRUE]

\* processSyncChange(change).
Series_processSyncChange(S, change) ==
  CASE change.type = "task" /\ change.action = "create" ->
         Series_handleTaskCreate(S, change.data)
    [] change.type = "task" /\ change.action = "update" ->
         Series_handleTaskUpdate(S, change.data)
    [] change.type = "task" /\ change.action = "delete" ->
         Series_handleTaskDelete(S, change.data.id)
    [] change.type = "task_list" /\ change.action = "create" ->
         Series_handleTaskListCreate(S, change.data.id)
    [] change.type = "task_list" /\ change.action = "delete" ->
         Series_handleTaskListDelete(S, change.data.id)

\* The loop of POST /api/sync: [S, processed].
RECURSIVE Series_ProcessChanges(_, _, _, _)
Series_ProcessChanges(S, changes, i, processed) ==
  IF i > Len(changes) THEN [S |-> S, processed |-> processed]
  ELSE LET r == Series_processSyncChange(S, changes[i])
       IN IF r.ok THEN Series_ProcessChanges(r.S, changes, i + 1, processed + 1)
          ELSE Series_ProcessChanges(r.S, changes, i + 1, processed)

\* syncOfflineChanges: send the queue, then remove its first result.processed items.
Series_syncOfflineChanges(S) ==
  LET result == Series_ProcessChanges(S, S.queue, 1, 0)
  IN [result.S EXCEPT !.queue = SubSeq(S.queue, result.processed + 1, Len(S.queue))]

\* fetchTasks / refreshTasks online: the server's rows are put into the local store as
\* 'synced' and become the React state; offline (loadOfflineData) the visible local rows
\* and the local lists are shown.
Series_refreshTasks(S, isOnline) ==
  IF isOnline
  THEN LET fetched == {[r EXCEPT !.sync_status = "synced"] : r \in S.remote}
       IN [S EXCEPT !.local = {l \in @ : \A r \in fetched : r.id # l.id} \cup fetched,
                    !.tasks = S.remote]
  ELSE [S EXCEPT !.tasks = visibleTasks(S.local), !.taskLists = S.localLists]

\* saveTaskOffline(taskData, action): the row is saved as 'pending', or 'deleted', and the
\* action enqueued with it.
Series_saveTaskOffline(S, taskData, action) ==
  LET offlineTask == [taskData EXCEPT !.id = IF @ = 0 THEN S.nextId + 1 ELSE @,
                                      !.sync_status = IF action = "delete" THEN "deleted"
                                                      ELSE "pending"]
  IN [S |-> enqueue([S EXCEPT !.local = putRow(@, offlineTask),
                              !.nextId = IF taskData.id = 0 THEN @ + 1 ELSE @],
                    "task", action, offlineTask),
      ret |-> offlineTask]

\* createTask(taskData) of useTaskAPI for a task without recurrence: POST /api/tasks and
\* a local copy when online, saveTaskOffline when offline or when the insert fails.
Series_createTask(S, taskData, isOnline) ==
  IF isOnline /\ ListKeyHolds(S, taskData)
  THEN LET task == [taskData EXCEPT !.id = S.nextId + 1, !.completed = FALSE,
                                    !.sync_status = "synced",
                                    !.is_recurring_parent = (taskData.recurrence # "none")]
       IN [S |-> [S EXCEPT !.remote = @ \cup {task}, !.local = putRow(@, task),
                           !.nextId = @ + 1],
           ret |-> task]
  ELSE Series_saveTaskOffline(S, taskData, "create")

\* updateTask(id, updates) of useTaskAPI.  Offline: the local row with the updates goes
\* through saveTaskOffline.  Online: PUT /api/tasks/:id, the answer is saved locally; a
\* row the server does not have is an error, and the update is then made offline.  ret
\* is Absent when the call throws.
Series_apiUpdateTask(S, id, updates, isOnline) ==
  LET existingTask == IF \E r \in visibleTasks(S.local) : r.id = id
                      THEN CHOOSE r \in visibleTasks(S.local) : r.id = id ELSE Absent
      offline == IF existingTask = Absent THEN [S |-> S, ret |-> Absent]
                 ELSE Series_saveTaskOffline(
                        S, [c \in DOMAIN existingTask |->
                              IF c \in DOMAIN updates THEN updates[c] ELSE existingTask[c]],
                        "update")
      put == updateRemoteRow(S, id, [c \in DOMAIN updates \cup {"sync_status"} |->
                                      IF c = "sync_status" THEN "synced" ELSE updates[c]])
  IN IF ~isOnline THEN offline
     ELSE IF put.found
          THEN [S |-> [put.S EXCEPT !.local = putRow(@, put.row)], ret |-> put.row]
          ELSE offline

\* generateNextInstance(completedTask, recurrenceType): the next instance, or Absent
\* (null) when its date is more than a year away or a task of the series that is not
\* completed has that date already.
generateNextInstance(S, completedTask, recurrenceType) ==
  LET nextDate == instanceDate(completedTask.due_date, recurrenceType, 1)
      oneYearFromNow == MakeDate(Today.y + 1, Today.m, Today.d)
      parentId == IF completedTask.recurrence_id # 0 THEN completedTask.recurrence_id
                  ELSE completedTask.id
      existingNext == {task \in visibleTasks(S.local) :
                         task.recurrence_id = parentId /\ task.due_date = nextDate
                         /\ ~task.completed}
  IN IF After(nextDate, oneYearFromNow) \/ existingNext # {} THEN Absent
     ELSE SeriesRow(S.nextId + 1, nextDate, "none", parentId, FALSE, FALSE,
                    completedTask.list_id, "pending")

\* getParentRecurrenceType(parentId).
getParentRecurrenceType(S, parentId) ==
  IF \E r \in visibleTasks(S.local) : r.id = parentId
  THEN (CHOOSE r \in visibleTasks(S.local) : r.id = parentId).recurrence
  ELSE "none"

\* completeRecurringTask(task): the task is saved as completed; the next instance, when
\* there is one to create, is saved and enqueued.
completeRecurringTask(S, task) ==
  LET S1 == [S EXCEPT !.local = putRow(@, [task EXCEPT !.completed = TRUE])]
      parentId == IF task.recurrence_id # 0 THEN task.recurrence_id ELSE task.id
      recurrenceType == IF task.recurrence # "none" THEN task.recurrence
                        ELSE getParentRecurrenceType(S1, parentId)
      nextInstance == generateNextInstance(S1, task, recurrenceType)
  IN IF (task.recurrence # "none" \/ task.recurrence_id # 0) /\ recurrenceType # "none"
        /\ nextInstance # Absent
     THEN enqueue([S1 EXCEPT !.local = putRow(@, nextInstance), !.nextId = @ + 1],
                  "task", "create", nextInstance)
     ELSE S1

\* The tasks of a set in the order of their ids.
RECURSIVE byId(_)
byId(rows) ==
  IF rows = {} THEN <<>>
  ELSE LET first == CHOOSE r \in rows : \A q \in rows : r.id <= q.id
       IN <<first>> \o byId(rows \ {first})

\* deleteRecurringSeries(taskId, isParent): every local task of the series is removed
\* from the local store and a delete is enqueued for it.
deleteRecurringSeries(S, taskId, isParent) ==
  LET allTasks == visibleTasks(S.local)
      parentId == IF isParent THEN taskId
                  ELSE IF \E t \in allTasks : t.id = taskId
                       THEN (CHOOSE t \in allTasks : t.id = taskId).recurrence_id
                       ELSE 0
      seriesToDelete == byId({task \in allTasks :
                                task.id = parentId \/ task.recurrence_id = parentId})
  IN IF parentId = 0 THEN S
     ELSE [S EXCEPT !.local = {r \in @ : \A i \in 1..Len(seriesToDelete) :
                                           seriesToDelete[i].id # r.id},
                    !.queue = @ \o [i \in 1..Len(seriesToDelete) |->
                                     [type |-> "task", action |-> "delete",
                                      data |-> seriesToDelete[i]]]]

\* The stores a handler leaves.
ApplySeries(S) ==
  /\ rLocal' = S.local
  /\ rTasks' = S.tasks
  /\ rQueue' = S.queue
  /\ rRemote' = S.remote
  /\ rLocalLists' = S.localLists
  /\ rRemoteLists' = S.remoteLists
  /\ rTaskLists' = S.taskLists
  /\ rNextId' = S.nextId
  /\ rAddedOnline' = S.addedOnline
  /\ rDeleted' = S.deleted
  /\ rDeletedLists' = S.deletedLists

\* The recurrence rules and due dates the user enters for a series.
SeriesRules == {"weekly"}

SeriesDues == {Today, [Today EXCEPT !.d = @ + 2]}

\* The series, the tasks without recurrence and the lists a run may hold, and the handler
\* calls the page may make.
MaxSeries == 1
MaxPlain == 1
MaxLists == 1
MaxOps == 4

\* One more handler call of the page.
CountOp == rOps < MaxOps /\ rOps' = rOps + 1

\* addTask(task) with recurrence: createRecurringTask, whatever the connection; the
\* parent enters the React state.
addRecurringTask(Rules, Dues) ==
  \E recurrence \in Rules, due_date \in Dues :
    /\ Cardinality({r \in rLocal \cup rRemote : r.is_recurring_parent}) < MaxSeries
    /\ LET taskData == SeriesRow(0, due_date, recurrence, 0, recurrence # "none", FALSE, 0,
                                 "synced")
           eff == createRecurringTask(Series, taskData)
       IN /\ ApplySeries([eff.S EXCEPT !.tasks = @ \cup {eff.ret},
                                       !.addedOnline = IF online THEN @ \cup {eff.ret.id}
                                                       ELSE @])
          /\ rLast' = [op |-> "addTask", id |-> eff.ret.id, recurrence |-> recurrence,
                       due_date |-> due_date, online |-> online]
    /\ CountOp
    /\ UNCHANGED <<syncVars, notifVars, expVars, extVars>>

\* The lists a task may be put on, and the ids a run may hand out.
MaxRowIds == 40

\* addTask(task) without recurrence: apiCreateTask; the new task enters the React state.
addPlainTask ==
  \E list_id \in rTaskLists \cup {0} :
    /\ Cardinality({r \in rLocal \cup rRemote : r.recurrence_id = 0}) < MaxPlain
    /\ LET taskData == SeriesRow(0, Today, "none", 0, FALSE, FALSE, list_id, "synced")
           eff == Series_createTask(Series, taskData, online)
       IN /\ ApplySeries([eff.S EXCEPT !.tasks = @ \cup {eff.ret}])
          /\ rLast' = [op |-> "addTask", id |-> eff.ret.id, recurrence |-> "none",
                       due_date |-> Today, online |-> online]
    /\ CountOp
    /\ UNCHANGED <<syncVars, notifVars, expVars, extVars>>

\* The tasks of the page a run acts on: the tasks that are no instances, and of each
\* series the instances with its earliest due date.
SeriesTargets ==
  {t \in rTasks : t.recurrence_id = 0
                  \/ \A q \in rTasks : q.recurrence_id = t.recurrence_id
                                        => ~After(t.due_date, q.due_date)}

\* What the page sends for a task: the checkbox of TaskList toggles completed; TaskModal
\* sends the chosen recurrence for a task that is neither a parent nor an instance, and
\* the task's own recurrence otherwise.
SeriesUpdates(task, Rules) ==
  {[completed |-> ~task.completed]}
  \cup IF task.recurrence_id # 0 \/ task.is_recurring_parent THEN {}
       ELSE {[recurrence |-> r] : r \in Rules}

\* updateTask(id, updates) on a task the page shows: apiUpdateTask; when the update
\* completes a task the React state holds as not completed and as part of a series,
\* completeRecurringTask(updatedTask); the React state takes the updated task.  Nothing
\* follows a thrown apiUpdateTask.
Series_updateTask(Rules) ==
  \E task \in SeriesTargets :
   \E updates \in SeriesUpdates(task, Rules) :
    /\ rNextId < MaxRowIds
    /\ LET eff == Series_apiUpdateTask(Series, task.id, updates, online)
           updatedTask == eff.ret
           completes == "completed" \in DOMAIN updates /\ updates.completed
                        /\ ~task.completed
           S1 == IF completes /\ (task.recurrence # "none" \/ task.recurrence_id # 0)
                 THEN completeRecurringTask(eff.S, updatedTask)
                 ELSE eff.S
       IN /\ IF updatedTask = Absent THEN ApplySeries(Series)
             ELSE ApplySeries([S1 EXCEPT !.tasks = {t \in @ : t.id # task.id}
                                                   \cup {updatedTask}])
          /\ rLast' = [op |-> "updateTask", id |-> task.id, updates |-> updates,
                       thrown |-> (updatedTask = Absent), completes |-> completes,
                       before |-> task, online |-> online,
                       localBefore |-> visibleTasks(rLocal), remoteBefore |-> rRemote,
                       nextIdBefore |-> rNextId]
    /\ CountOp
    /\ UNCHANGED <<syncVars, notifVars, expVars, extVars>>

\* deleteTask(id) on a task of a series the page shows: deleteRecurringSeries, and the
\* series leaves the React state.
Series_deleteTask ==
  \E taskToDelete \in SeriesTargets :
    /\ taskToDelete.is_recurring_parent \/ taskToDelete.recurrence_id # 0
    /\ LET S1 == deleteRecurringSeries(Series, taskToDelete.id,
                                       taskToDelete.is_recurring_parent)
           parentId == IF taskToDelete.is_recurring_parent THEN taskToDelete.id
                       ELSE taskToDelete.recurrence_id
       IN /\ ApplySeries([S1 EXCEPT !.tasks = {t \in @ : t.id # parentId
                                                         /\ t.recurrence_id # parentId},
                                    !.deleted = @ \cup {parentId}])
          /\ rLast' = [op |-> "deleteTask", id |-> taskToDelete.id, parentId |-> parentId,
                       online |-> online]
    /\ CountOp
    /\ UNCHANGED <<syncVars, notifVars, expVars, extVars>>

\* addTaskList(name): online the list is inserted and cached; offline it is saved and a
\* create is enqueued.
Series_addTaskList ==
  /\ rNextId < MaxRowIds
  /\ Cardinality(rLocalLists \cup rRemoteLists \cup rTaskLists) < MaxLists
  /\ LET id == rNextId + 1
         S == [Series EXCEPT !.nextId = id, !.taskLists = @ \cup {id},
                             !.localLists = @ \cup {id}]
     IN IF online THEN ApplySeries([S EXCEPT !.remoteLists = @ \cup {id}])
        ELSE ApplySeries(enqueue(S, "task_list", "create", [id |-> id]))
  /\ rLast' = [op |-> "addTaskList", online |-> online]
  /\ CountOp
  /\ UNCHANGED <<syncVars, notifVars, expVars, extVars>>

\* deleteTaskList(id).  Online: the list is deleted on the server, where the foreign key
\* of tasks.list_id cascades, and in the local store of lists.  Offline: a delete is
\* enqueued.  Either way the list leaves the React state.
Series_deleteTaskList ==
  \E id \in rTaskLists :
    /\ IF online
       THEN ApplySeries([Series_handleTaskListDelete(Series, id).S
                           EXCEPT !.localLists = @ \ {id}, !.taskLists = @ \ {id},
                                  !.deletedLists = @ \cup {id}])
       ELSE ApplySeries([enqueue(Series, "task_list", "delete", [id |-> id])
                           EXCEPT !.taskLists = @ \ {id},
                                  !.deletedLists = @ \cup {id}])
    /\ rLast' = [op |-> "deleteTaskList", id |-> id, online |-> online]
    /\ CountOp
    /\ UNCHANGED <<syncVars, notifVars, expVars, extVars>>

\* syncOfflineData: the drain, the queue's entries in their order, then refreshTasks and
\* refreshTaskLists.
Series_syncOfflineData ==
  /\ online
  /\ rQueue # <<>>
  /\ LET S == Series_refreshTasks(Series_syncOfflineChanges(Series), TRUE)
     IN ApplySeries([S EXCEPT !.taskLists = S.remoteLists,
                              !.localLists = @ \cup S.remoteLists])
  /\ rLast' = [op |-> "sync"]
  /\ UNCHANGED <<syncVars, notifVars, expVars, extVars, rOps>>

\* refreshTasks on its own (the page is loaded, or the sync button is pressed with an
\* empty queue).
Series_refresh ==
  /\ ApplySeries(Series_refreshTasks(Series, online))
  /\ rLast' = [op |-> "refresh"]
  /\ UNCHANGED <<syncVars, notifVars, expVars, extVars, rOps>>

\* ---------------------------------------------------------------- specifications
\* Synchronisation of tasks: the task handlers, the batch drain, another device.
Next ==
  \/ Tick
  \/ GoOffline
  \/ GoOnline
  \/ OtherClientWrite
  \/ addTask(SyncTaskInputs, NetOutcomes)
  \/ updateTask(SyncUpdates, NetOutcomes)
  \/ deleteTask(NetOutcomes)
  \/ refreshTasks
  \/ syncOfflineData

Spec == Init /\ [][Next]_vars

\* Reminders: the task handlers on a working connection, the timers, the service worker.
NotifNext ==
  \/ Tick
  \/ addTask(ReminderTaskInputs, {"ok"})
  \/ updateTask(ReminderUpdates, {"ok"})
  \/ deleteTask({"ok"})
  \/ refreshTasks
  \/ TimerFire
  \/ SW_scheduleNotification
  \/ SW_queueNotification
  \/ SW_processNotificationQueue
  \/ SW_cancelNotification
  \/ SW_TimerFire

NotifSpec == Init /\ [][NotifNext]_vars

\* Snooze: a task with a reminder, the clock, the timers of the page and of the service
\* worker, the connection, the snooze action.
SnoozeNext ==
  \/ Tick
  \/ GoOffline
  \/ GoOnline
  \/ addTask(ReminderTaskInputs, {"ok"})
  \/ TimerFire
  \/ SW_scheduleNotification
  \/ SW_TimerFire
  \/ handleTaskSnooze

SnoozeSpec == Init /\ [][SnoozeNext]_vars

\* Task lists next to tasks: the list handlers, the task handlers on a working connection,
\* the batch drain.
ListNext ==
  \/ GoOffline
  \/ GoOnline
  \/ addTaskList
  \/ deleteTaskList
  \/ addTask(SyncTaskInputs, {"ok"})
  \/ updateTask(SyncUpdates, {"ok"})
  \/ deleteTask({"ok"})
  \/ syncOfflineData

ListSpec == Init /\ [][ListNext]_vars

\* A drain whose request the server answers.
AnsweredDrain == syncOfflineData /\ lastDrain'.net = "ok"

\* Drains that keep being triggered: TaskProvider arms the drain whenever the page is
\* online and no drain is running (the effect on isOnline and isSyncing, and the sync
\* button); the network does not fail for ever.  So while the page stays online, a drain
\* that the server answers is eventually run.
LiveNext ==
  \/ Tick
  \/ GoOffline
  \/ GoOnline
  \/ addTask(SyncTaskInputs, {"ok"})
  \/ refreshTasks
  \/ syncOfflineData
  \/ OS_syncOfflineData

LiveSpec == Init /\ [][LiveNext]_vars /\ WF_vars(AnsweredDrain)

\* The expanders on their own: the arguments are drawn, the call is made.
ExpandInit == InitCore /\ SeriesInit /\ ExtInit /\ expIn \in ExpandInputs /\ expOut = <<>>

ExpandSpec == ExpandInit /\ [][Expand]_vars

\* A weekly series from its creation to the server.
WeeklyNext ==
  \/ GoOffline
  \/ GoOnline
  \/ addRecurringTask({"weekly"}, SeriesDues)
  \/ addPlainTask
  \/ Series_syncOfflineData
  \/ Series_refresh

WeeklySpec == Init /\ [][WeeklyNext]_vars

\* A monthly series and a task without recurrence on a list: creation, edits, completion,
\* deletion, the drain.
SeriesNext ==
  \/ GoOffline
  \/ GoOnline
  \/ addRecurringTask({"monthly"}, {Today})
  \/ addPlainTask
  \/ Series_updateTask({"monthly"})
  \/ Series_deleteTask
  \/ Series_addTaskList
  \/ Series_deleteTaskList
  \/ Series_syncOfflineData
  \/ Series_refresh

SeriesSpec == Init /\ [][SeriesNext]_vars

\* The local database on its own: rows are put and deleted, and read.
IdbNext ==
  \/ IDB_saveTask
  \/ IDB_deleteTask
  \/ IDB_saveTaskList
  \/ IDB_deleteTaskList
  \/ IDB_getTasks
  \/ IDB_getTask
  \/ IDB_getTaskLists

IdbSpec == Init /\ [][IdbNext]_vars

\* The server scan on its own: rows and subscriptions are written, the clock advances,
\* the function is invoked.
ScanNext ==
  \/ Scan_saveTask
  \/ Scan_storeSubscription
  \/ Scan_unsubscribeFromPush
  \/ Scan_Tick
  \/ Scan_pass

ScanSpec == Init /\ [][ScanNext]_vars

\* ---------------------------------------------------------------- instances of a series
\* The three places that build an instance of a recurring task, on rows that carry every
\* column the builders name.  list_id 0 and recurrence_id 0 stand for null.
InstParentId == 1
InstTaskId == 2
InstNewId == 3
MaxInstances == 2

\* The tasks an instance is built from: the parent of a series as createRecurringTask and
\* handleTaskCreate hand it on, and an instance of the series that was completed.
InstContents ==
  [title : {"a", "b"}, description : {"", "d"}, due_time : {"09:00", "17:30"},
   priority : {"low", "high"}, list_id : {0, 101}, email_reminder : BOOLEAN,
   push_notification : BOOLEAN, notification_time : {"5min", "1hour"}]

InstTask(c, id, recurrence, recurrence_id, is_recurring_parent, completed) ==
  [id |-> id, title |-> c.title, description |-> c.description, due_date |-> Today,
   due_time |-> c.due_time, priority |-> c.priority, user_id |-> "u1",
   list_id |-> c.list_id, email_reminder |-> c.email_reminder,
   push_notification |-> c.push_notification, notification_time |-> c.notification_time,
   recurrence |-> recurrence, recurrence_id |-> recurrence_id,
   is_recurring_parent |-> is_recurring_parent, completed |-> completed,
   sync_status |-> "synced"]

InstSources ==
  {InstTask(c, InstParentId, recurrence, 0, TRUE, completed) :
     c \in InstContents, recurrence \in {"weekly", "monthly"}, completed \in BOOLEAN}
  \cup {InstTask(c, InstTaskId, "none", InstParentId, FALSE, TRUE) : c \in InstContents}

\* An instance literal that would take the default lead instead of the parent's; C34
\* tells it from RecurringTaskInstance.
RecurringTaskInstanceDefaultLead(parentTask, id, due_date, userId) ==
  [id |-> id, title |-> parentTask.title, description |-> parentTask.description,
   due_date |-> due_date, due_time |-> parentTask.due_time,
   priority |-> parentTask.priority, user_id |-> userId, list_id |-> parentTask.list_id,
   email_reminder |-> parentTask.email_reminder,
   push_notification |-> parentTask.push_notification,
   notification_time |-> "10min",
   recurrence |-> "none", recurrence_id |-> parentTask.id, is_recurring_parent |-> FALSE,
   completed |-> FALSE, sync_status |-> "pending"]

\* The literal of generateRecurringInstances (useRecurringTasks).  It names no completed;
\* the row reads as not completed.
RecurringTaskInstance(parentTask, id, due_date, userId) ==
  [id |-> id, title |-> parentTask.title, description |-> parentTask.description,
   due_date |-> due_date, due_time |-> parentTask.due_time,
   priority |-> parentTask.priority, user_id |-> userId, list_id |-> parentTask.list_id,
   email_reminder |-> parentTask.email_reminder,
   push_notification |-> parentTask.push_notification,
   notification_time |-> parentTask.notification_time,
   recurrence |-> "none", recurrence_id |-> parentTask.id, is_recurring_parent |-> FALSE,
   completed |-> FALSE, sync_status |-> "pending"]

\* The literal of generateNextInstance.
nextInstance(completedTask, parentId, id, nextDateStr, userId) ==
  [id |-> id, title |-> completedTask.title, description |-> completedTask.description,
   due_date |-> nextDateStr, due_time |-> completedTask.due_time,
   priority |-> completedTask.priority, user_id |-> userId,
   list_id |-> completedTask.list_id, email_reminder |-> completedTask.email_reminder,
   push_notification |-> completedTask.push_notification,
   notification_time |-> completedTask.notification_time,
   recurrence |-> "none", recurrence_id |-> parentId, is_recurring_parent |-> FALSE,
   completed |-> FALSE, sync_status |-> "pending"]

\* The literal of the server's generateRecurringInstances: {...taskData, id: undefined,
\* due_date, recurrence_id, is_recurring_parent: false, recurrence: 'none'}.
serverInstance(taskData, parentId, id, due_date) ==
  [taskData EXCEPT !.id = id, !.due_date = due_date, !.recurrence_id = parentId,
                   !.is_recurring_parent = FALSE, !.recurrence = "none"]

\* generateRecurringInstances(parentTask, recurrenceType) of the client: one of the
\* instances it returns.
Inst_generateRecurringInstances ==
  /\ inOut = NoInst
  /\ inSource.is_recurring_parent
  /\ LET dates == generateRecurringInstances(inSource.due_date, inSource.recurrence,
                                             getInstanceCount(inSource.recurrence), Today)
     IN \E i \in 1..MaxInstances :
          /\ i <= Len(dates)
          /\ inOut' = [op |-> "expand", i |-> i, parentId |-> inSource.id,
                       recurrence |-> inSource.recurrence,
                       instance |-> RecurringTaskInstance(inSource, InstNewId, dates[i],
                                                          "u1")]
  /\ UNCHANGED <<syncVars, notifVars, expVars, seriesVars, nonInstVars, inSource>>

\* generateNextInstance(completedTask, recurrenceType) with no task of the series on the
\* next date; the recurrence type of an instance is its parent's.
Inst_generateNextInstance ==
  /\ inOut = NoInst
  /\ inSource.completed
  /\ \E recurrenceType \in IF inSource.recurrence # "none" THEN {inSource.recurrence}
                           ELSE {"weekly", "monthly"} :
       LET parentId == IF inSource.recurrence_id # 0 THEN inSource.recurrence_id
                       ELSE inSource.id
           nextDate == instanceDate(inSource.due_date, recurrenceType, 1)
       IN /\ ~After(nextDate, MakeDate(Today.y + 1, Today.m, Today.d))
          /\ inOut' = [op |-> "next", i |-> 1, parentId |-> parentId,
                       recurrence |-> recurrenceType,
                       instance |-> nextInstance(inSource, parentId, InstNewId, nextDate,
                                                 "u1")]
  /\ UNCHANGED <<syncVars, notifVars, expVars, seriesVars, nonInstVars, inSource>>

\* generateRecurringInstances(parentId, recurrence, taskData) of the server: one of the
\* rows it inserts.
Inst_serverGenerateRecurringInstances ==
  /\ inOut = NoInst
  /\ inSource.is_recurring_parent
  /\ LET dates == Server_generateRecurringInstances(inSource.due_date, inSource.recurrence)
     IN \E i \in 1..MaxInstances :
          /\ i <= Len(dates)
          /\ inOut' = [op |-> "server", i |-> i, parentId |-> inSource.id,
                       recurrence |-> inSource.recurrence,
                       instance |-> serverInstance(inSource, inSource.id, InstNewId,
                                                   dates[i])]
  /\ UNCHANGED <<syncVars, notifVars, expVars, seriesVars, nonInstVars, inSource>>

InstInit ==
  /\ InitCore /\ ExpanderIdle /\ SeriesInit /\ IdbInit /\ ScanInit /\ AuthInit /\ FlightInit
  /\ inSource \in InstSources
  /\ inOut = NoInst

InstNext ==
  \/ Inst_generateRecurringInstances
  \/ Inst_generateNextInstance
  \/ Inst_serverGenerateRecurringInstances

InstSpec == InstInit /\ [][InstNext]_vars

\* ---------------------------------------------------------------- drains in flight
\* A drain is in flight from the moment syncOfflineData has passed its guard until its
\* try block ends.  A state update is taken as rendered before the next event is handled.
MaxFlight == 2

FlightFrame == UNCHANGED <<syncVars, notifVars, expVars, seriesVars, nonFlightVars>>

\* syncOfflineData of TaskProvider as the render r sees it: the guard, then
\* setSyncStatus(isSyncing: true).  The auto-sync effect has isSyncing among its
\* dependencies: its timer is cleared.
TP_start(r, trigger) ==
  IF ~r.isOnline \/ r.isSyncing
  THEN /\ dfLast' = [hook |-> "TaskProvider", op |-> trigger, sent |-> FALSE,
                     during |-> tp.flight > 0]
       /\ tp' = [tp EXCEPT !.timer = IF trigger = "timer" THEN FALSE ELSE @]
  ELSE /\ dfLast' = [hook |-> "TaskProvider", op |-> trigger, sent |-> TRUE,
                     during |-> tp.flight > 0]
       /\ tp' = [tp EXCEPT !.isSyncing = TRUE, !.flight = @ + 1, !.timer = FALSE]

\* The timer of the auto-sync effect fires: syncOfflineData of the render that armed it,
\* which is the current one, since every change of isOnline or isSyncing re-arms it.
TP_autoSyncTimer ==
  /\ tp.timer
  /\ tp.flight < MaxFlight
  /\ TP_start(tp, "timer")
  /\ UNCHANGED os
  /\ FlightFrame

\* handleForceSync of OfflineIndicator.
TP_handleForceSync ==
  /\ tp.flight < MaxFlight
  /\ IF tp.isOnline /\ ~tp.isSyncing
     THEN TP_start(tp, "force")
     ELSE /\ dfLast' = [hook |-> "TaskProvider", op |-> "force", sent |-> FALSE,
                        during |-> tp.flight > 0]
          /\ UNCHANGED tp
  /\ UNCHANGED os
  /\ FlightFrame

\* The try block of syncOfflineData ends, in its last statement or in the catch: both
\* set isSyncing to false, and the auto-sync effect runs again.
TP_drainEnds ==
  /\ tp.flight > 0
  /\ \E failed \in BOOLEAN :
       dfLast' = [hook |-> "TaskProvider", op |-> "end", failed |-> failed, sent |-> FALSE,
                  during |-> tp.flight > 1]
  /\ tp' = [tp EXCEPT !.flight = @ - 1, !.isSyncing = FALSE, !.timer = tp.isOnline]
  /\ UNCHANGED os
  /\ FlightFrame

\* isOnline of TaskProvider changes; the auto-sync effect runs again.
TP_setOnline ==
  /\ tp' = [tp EXCEPT !.isOnline = ~@, !.timer = ~tp.isOnline /\ ~tp.isSyncing]
  /\ dfLast' = NoTrigger
  /\ UNCHANGED os
  /\ FlightFrame

\* syncOfflineData of useOfflineSync as the closure c sees it.
OSF_start(c, trigger, next) ==
  IF ~c.isOnline \/ c.isSyncing
  THEN /\ dfLast' = [hook |-> "useOfflineSync", op |-> trigger, sent |-> FALSE,
                     during |-> os.flight > 0]
       /\ os' = next
  ELSE /\ dfLast' = [hook |-> "useOfflineSync", op |-> trigger, sent |-> TRUE,
                     during |-> os.flight > 0]
       /\ os' = [next EXCEPT !.isSyncing = TRUE, !.flight = @ + 1]

\* The effect on [user, syncStatus.isOnline] after isOnline changed: its timer is cleared,
\* and armed again when the page is online, with the syncOfflineData of this render.
OSF_effect(o) ==
  [o EXCEPT !.timer = o.isOnline,
            !.timerClosure = [isOnline |-> o.isOnline, isSyncing |-> o.isSyncing]]

\* handleOnline: setSyncStatus(isOnline: true), then the syncOfflineData the listener was
\* registered with.
OSF_handleOnline ==
  /\ ~os.isOnline
  /\ os.flight < MaxFlight
  /\ OSF_start(os.listenerClosure, "online",
               OSF_effect([os EXCEPT !.isOnline = TRUE,
                                     !.isSyncing = @ \/ (os.listenerClosure.isOnline
                                                         /\ ~os.listenerClosure.isSyncing)]))
  /\ UNCHANGED tp
  /\ FlightFrame

\* handleOffline.
OSF_handleOffline ==
  /\ os.isOnline
  /\ os' = OSF_effect([os EXCEPT !.isOnline = FALSE])
  /\ dfLast' = NoTrigger
  /\ UNCHANGED tp
  /\ FlightFrame

\* handleMessage on SYNC_OFFLINE_TASKS, SYNC_OFFLINE_TASK_LISTS or SYNC_ALL_OFFLINE_DATA.
OSF_handleMessage ==
  /\ os.flight < MaxFlight
  /\ OSF_start(os.listenerClosure, "message", os)
  /\ UNCHANGED tp
  /\ FlightFrame

\* The timer of the effect on [user, syncStatus.isOnline] fires.
OSF_loginTimer ==
  /\ os.timer
  /\ os.flight < MaxFlight
  /\ OSF_start(os.timerClosure, "timer", [os EXCEPT !.timer = FALSE])
  /\ UNCHANGED tp
  /\ FlightFrame

\* forceSync: a callback of the current render.
OSF_forceSync ==
  /\ os.flight < MaxFlight
  /\ IF os.isOnline /\ ~os.isSyncing
     THEN OSF_start(os, "force", os)
     ELSE /\ dfLast' = [hook |-> "useOfflineSync", op |-> "force", sent |-> FALSE,
                        during |-> os.flight > 0]
          /\ UNCHANGED os
  /\ UNCHANGED tp
  /\ FlightFrame

\* The try block of syncOfflineData of useOfflineSync ends.
OSF_drainEnds ==
  /\ os.flight > 0
  /\ \E failed \in BOOLEAN :
       dfLast' = [hook |-> "useOfflineSync", op |-> "end", failed |-> failed,
                  sent |-> FALSE, during |-> os.flight > 1]
  /\ os' = [os EXCEPT !.flight = @ - 1, !.isSyncing = FALSE]
  /\ UNCHANGED tp
  /\ FlightFrame

FlightNext ==
  \/ TP_autoSyncTimer
  \/ TP_handleForceSync
  \/ TP_drainEnds
  \/ TP_setOnline
  \/ OSF_handleOnline
  \/ OSF_handleOffline
  \/ OSF_handleMessage
  \/ OSF_loginTimer
  \/ OSF_forceSync
  \/ OSF_drainEnds

FlightSpec == Init /\ [][FlightNext]_vars

\* ---------------------------------------------------------------- saves of useOfflineSync
\* saveTaskOffline(task, action) of useOfflineSync: the row is synced when the hook takes
\* the page to be online and pending otherwise, deleted for a delete; it is saved, and
\* enqueued when the page is offline or the action is a delete.  id 0 stands for
\* 'task.id is undefined'.
OS_saveTaskOffline ==
  \E tid \in {0} \cup {id \in TaskIds : localTasks[id] # Absent},
     action \in {"create", "update", "delete"}, title \in {"a", "b"} :
    LET enq == ~online \/ action = "delete"
        key == CHOOSE k \in QueueKeys \ usedKeys : \A j \in QueueKeys \ usedKeys : k <= j
        taskId == IF tid # 0 THEN tid ELSE FreshId(TaskIds, usedIds)
        f == IF tid # 0 THEN [FieldsOf(localTasks[tid]) EXCEPT !.title = title]
             ELSE Fields(title, 0, "10min", TRUE, FALSE)
        offlineTask == TaskRec(taskId, f,
                               IF action = "delete" THEN "deleted"
                               ELSE IF online THEN "synced" ELSE "pending",
                               ~online,
                               IF tid # 0 THEN localTasks[tid].created_at ELSE now, now)
    IN /\ (tid = 0) <=> (action = "create")
       /\ tid = 0 => TaskIds \ usedIds # {}
       /\ enq => QueueKeys \ usedKeys # {}
       /\ localTasks' = saveTask(localTasks, offlineTask)
       /\ syncQueue' = IF enq
                       THEN addToSyncQueue(syncQueue, key, "task", action, offlineTask,
                                           nextSeq + 1, basis[taskId])
                       ELSE syncQueue
       /\ usedIds' = usedIds \cup {taskId}
       /\ usedKeys' = IF enq THEN usedKeys \cup {key} ELSE usedKeys
       /\ nextSeq' = IF enq THEN nextSeq + 1 ELSE nextSeq
       /\ lastOp' = [op |-> "saveTaskOffline", type |-> "task", action |-> action,
                     id |-> taskId, offline |-> ~online, enq |-> enq, thrown |-> FALSE]
       /\ lastDrain' = NoDrain
       /\ UNCHANGED <<now, online, localLists, taskLists, remoteTasks, remoteLists, basis,
                      serverWriter, notifVars, recVars>>

\* The tasks of useOfflineSync: saved through the hook while the page goes offline and
\* online, and drained by it.
SaveNext ==
  \/ Tick
  \/ GoOffline
  \/ GoOnline
  \/ OS_saveTaskOffline
  \/ OS_syncOfflineData

SaveSpec == Init /\ [][SaveNext]_vars

\* The email queue endpoint on its own: the table holds any rows the API may have
\* written (push_notification, which the endpoint never reads, is off), the clock
\* advances, a client posts its queue.
MailInit ==
  /\ InitCore /\ ExpanderIdle /\ SeriesInit /\ IdbInit /\ AuthInit /\ InstIdle /\ FlightInit
  /\ scTasks \in [ScanIds -> UNION {ScanRows(id) : id \in ScanIds} \cup {Absent}]
  /\ \A id \in ScanIds :
       scTasks[id] # Absent => scTasks[id].id = id /\ ~scTasks[id].push_notification
  /\ scSubs = {}
  /\ scNow = 0
  /\ scLast = NoPass
  /\ scSent = [tag \in ScanTags |-> 0]
  /\ scOps = 0

MailNext ==
  \/ Scan_Tick
  \/ Mail_syncEmails

MailSpec == MailInit /\ [][MailNext]_vars

\* The API server on its own: requests of two users.
AuthNext ==
  \/ Auth_postTask
  \/ Auth_getTasks
  \/ Auth_putTask
  \/ Auth_deleteTask
  \/ Auth_sync

AuthSpec == Init /\ [][AuthNext]_vars

\* The sync endpoint on its own: one queued update of a task or of a task list, enqueued
\* at Tc, meets a server row last written at Ts (-1: no row), for every Ts and Tc up to
\* the present.
ConflictInit ==
  /\ now \in 0..MaxStamp
  /\ online = TRUE
  /\ \E type \in {"task", "task_list"}, tid \in TaskIds, lid \in ListIds,
        Ts \in -1..MaxStamp, Tc \in 0..MaxStamp, w \in {"me", "other"} :
       LET row == TaskRec(tid, Fields("c", 0, "10min", FALSE, FALSE), "synced", FALSE, 0, Ts)
           edit == TaskRec(tid, Fields("b", 0, "10min", FALSE, FALSE), "pending", FALSE, 0, Tc)
           listRow == ListRec(lid, "synced", FALSE, 0, Ts)
           listEdit == ListRec(lid, "pending", FALSE, 0, Tc)
       IN /\ Ts <= now
          /\ Tc <= now
          /\ (type = "task") => lid = 100 + 1
          /\ (type = "task_list") => tid = 1 /\ w = "me"
          /\ (Ts = -1) => w = "me"
          /\ remoteTasks = [id \in TaskIds |->
                              IF type = "task" /\ id = tid /\ Ts # -1 THEN row ELSE Absent]
          /\ remoteLists = [id \in ListIds |->
                              IF type = "task_list" /\ id = lid /\ Ts # -1 THEN listRow
                              ELSE Absent]
          /\ localTasks = [id \in TaskIds |-> IF type = "task" /\ id = tid THEN edit ELSE Absent]
          /\ localLists = [id \in ListIds |->
                             IF type = "task_list" /\ id = lid THEN listEdit ELSE Absent]
          /\ taskLists = IF type = "task_list" THEN {lid} ELSE {}
          /\ syncQueue = {[key |-> 1, type |-> type, action |-> "update",
                           data |-> IF type = "task" THEN edit ELSE listEdit,
                           timestamp |-> Tc, retries |-> 0, seq |-> 1, basis |-> -1]}
          /\ usedIds = IF type = "task" THEN {tid} ELSE {lid}
          /\ serverWriter = [id \in TaskIds |->
                               IF type = "task" /\ id = tid /\ Ts # -1 THEN w ELSE "none"]
  /\ usedKeys = {1}
  /\ nextSeq = 1
  /\ basis = [id \in TaskIds |-> -1]
  /\ lastOp = NoOp
  /\ lastDrain = NoDrain
  /\ persisted = <<>>
  /\ scheduledNotifications = <<>>
  /\ timers = {}
  /\ nextNid = 0
  /\ shown = {}
  /\ superseded = {}
  /\ lateShown = {}
  /\ swMap = [id \in TaskIds |-> 0]
  /\ swTimers = {}
  /\ swNext = 0
  /\ swShown = {}
  /\ swQueue = <<>>
  /\ ExpanderIdle
  /\ SeriesInit
  /\ ExtInit

ConflictSpec == ConflictInit /\ [][syncOfflineData]_vars

\* The drains on their own: a queue of up to BatchLen entries for one task and one list
\* meets the server's rows.  An entry was enqueued at MaxStamp - 1; a server row is
\* missing (-1), older (MaxStamp - 2) or newer (MaxStamp).  For one record the entries
\* are in the order the page can enqueue them: a create only first, nothing after a
\* delete.  The entries have not failed before, or have failed MaxRetries - 1 times.
BatchLen == 3
BatchSymbols == {"task", "task_list"} \X {"create", "update", "delete"}
BatchShapes ==
  {shape \in UNION {[1..n -> BatchSymbols] : n \in 1..BatchLen} :
     \A i, j \in DOMAIN shape :
       (i < j /\ shape[i][1] = shape[j][1]) =>
         shape[j][2] # "create" /\ shape[i][2] # "delete"}
ServerStamps == {-1, MaxStamp - 2, MaxStamp}

BatchInit ==
  /\ now = MaxStamp
  /\ online = TRUE
  /\ \E shape \in BatchShapes, Ts \in ServerStamps, Tl \in ServerStamps,
        retries \in {0, MaxRetries - 1} :
       LET Tc == MaxStamp - 1
           tid == 1
           lid == 100 + 1
           ofType(type) == {i \in DOMAIN shape : shape[i][1] = type}
           last(type) == CHOOSE i \in ofType(type) : \A j \in ofType(type) : j <= i
           offline(type) == \E i \in ofType(type) : shape[i][2] = "create"
           status(action) == IF action = "delete" THEN "deleted" ELSE "pending"
           edit(action) == TaskRec(tid, Fields("b", 0, "10min", FALSE, FALSE), status(action),
                                   offline("task"), 0, Tc)
           listEdit(action) == ListRec(lid, status(action), offline("task_list"), 0, Tc)
           row == TaskRec(tid, Fields("c", 0, "10min", FALSE, FALSE), "synced", FALSE, 0, Ts)
           listRow == ListRec(lid, "synced", FALSE, 0, Tl)
       IN /\ remoteTasks = [id \in TaskIds |-> IF id = tid /\ Ts # -1 THEN row ELSE Absent]
          /\ remoteLists = [id \in ListIds |-> IF id = lid /\ Tl # -1 THEN listRow ELSE Absent]
          /\ localTasks = [id \in TaskIds |->
                              IF id # tid THEN Absent
                              ELSE IF ofType("task") # {} THEN edit(shape[last("task")][2])
                              ELSE IF Ts # -1 THEN row ELSE Absent]
          /\ localLists = [id \in ListIds |->
                              IF id # lid THEN Absent
                              ELSE IF ofType("task_list") # {}
                              THEN listEdit(shape[last("task_list")][2])
                              ELSE IF Tl # -1 THEN listRow ELSE Absent]
          /\ taskLists = getTasks(localLists)
          /\ syncQueue = {[key |-> i, type |-> shape[i][1], action |-> shape[i][2],
                           data |-> IF shape[i][1] = "task" THEN edit(shape[i][2])
                                    ELSE listEdit(shape[i][2]),
                           timestamp |-> Tc, retries |-> retries, seq |-> i, basis |-> -1] :
                             i \in DOMAIN shape}
          /\ usedIds = {tid, lid}
          /\ usedKeys = DOMAIN shape
          /\ nextSeq = Len(shape)
          /\ serverWriter = [id \in TaskIds |-> IF id = tid /\ Ts # -1 THEN "me" ELSE "none"]
  /\ basis = [id \in TaskIds |-> -1]
  /\ lastOp = NoOp
  /\ lastDrain = NoDrain
  /\ persisted = <<>>
  /\ scheduledNotifications = <<>>
  /\ timers = {}
  /\ nextNid = 0
  /\ shown = {}
  /\ superseded = {}
  /\ lateShown = {}
  /\ swMap = [id \in TaskIds |-> 0]
  /\ swTimers = {}
  /\ swNext = 0
  /\ swShown = {}
  /\ swQueue = <<>>
  /\ ExpanderIdle
  /\ SeriesInit
  /\ ExtInit

\* One drain of each such queue, by either of the two drains.
BatchNext ==
  \/ lastDrain = NoDrain /\ syncOfflineData
  \/ lastDrain = NoDrain /\ OS_syncOfflineData

BatchSpec == BatchInit /\ [][BatchNext]_vars

\* The same queues and rows, met by a refetch instead of a drain: refreshTasks, as the
\* page calls it on a change notification of the tasks channel and on its own.
RefetchSpec == BatchInit /\ [][refreshTasks]_vars

TypeOK ==
  /\ now \in 0..MaxTime
  /\ online \in BOOLEAN
  /\ usedKeys \subseteq QueueKeys
  /\ \A e \in syncQueue : e.key \in usedKeys /\ e.retries \in 0..(MaxRetries - 1)
  /\ persisted = scheduledNotifications
  /\ nextNid \in 0..MaxNid

\* ---------------------------------------------------------------- properties
\* The queue entries that carry the mutation lastOp made.
EntriesOfLastOp ==
  {e \in syncQueue : e.key = lastOp.key /\ e.type = lastOp.type /\ e.action = lastOp.op
                     /\ e.data.id = lastOp.id}

\* C1: whenever the online write of createTask, updateTask or deleteTask fails, the call
\* does not throw the mutation away: the local row of the task is pending (deleted for a
\* delete) and exactly one matching entry has been appended to the sync queue.
C1_FailedWriteFallsBack ==
  (lastOp.op \in {"create", "update", "delete"} /\ lastOp.type = "task" /\ lastOp.failed) =>
    /\ ~lastOp.thrown
    /\ lastOp.enq
    /\ Cardinality(EntriesOfLastOp) = 1
    /\ localTasks[lastOp.id] # Absent
    /\ localTasks[lastOp.id].sync_status = (IF lastOp.op = "delete" THEN "deleted" ELSE "pending")

\* C2: every drain sends the queue entries, and the server applies them, in the order in
\* which they were enqueued.
C2_DrainIsFifo ==
  (lastDrain.kind = "batch") =>
    \A i, j \in 1..Len(lastDrain.sent) :
      (i < j) => lastDrain.sent[i].seq < lastDrain.sent[j].seq

\* C4: a queued update whose basis is older than the row another device wrote on the
\* server is not written over that row.
C4_StaleEditNeverOverwrites ==
  (lastDrain.kind = "batch") =>
    \A i \in 1..Len(lastDrain.log) :
      LET l == lastDrain.log[i]
      IN (l.type = "task" /\ l.action = "update" /\ l.existed /\ l.writer = "other"
          /\ l.Ts > l.basis) => ~l.written

\* The positions of the last drain that sent the creation of a task made offline, the
\* creation being the only entry of that task.
OfflineCreations ==
  {i \in 1..Len(lastDrain.sent) :
     /\ lastDrain.sent[i].type = "task"
     /\ lastDrain.sent[i].action = "create"
     /\ lastDrain.sent[i].data.offline_created
     /\ \A j \in 1..Len(lastDrain.sent) :
          (lastDrain.sent[j].data.id = lastDrain.sent[i].data.id) => j = i}

\* C5: a task created offline is pending, offline_created and has exactly one queue entry;
\* after a drain that the server answered and the refetch that follows it, no entry of the
\* task is left and the local task is synced, not offline_created, with updated_at at or
\* after its creation time.
C5_OfflineCreateRoundTrip ==
  /\ (lastOp.op = "create" /\ lastOp.type = "task" /\ lastOp.offline /\ ~lastOp.thrown) =>
       /\ localTasks[lastOp.id].sync_status = "pending"
       /\ localTasks[lastOp.id].offline_created
       /\ Cardinality({e \in syncQueue : e.type = "task" /\ e.data.id = lastOp.id}) = 1
  /\ (lastDrain.kind = "batch" /\ lastDrain.net = "ok" /\ lastDrain.fetchOk) =>
       \A i \in OfflineCreations :
         LET id == lastDrain.sent[i].data.id
         IN /\ ~\E e \in syncQueue : e.type = "task" /\ e.data.id = id
            /\ localTasks[id] # Absent
            /\ localTasks[id].sync_status = "synced"
            /\ ~localTasks[id].offline_created
            /\ localTasks[id].updated_at >= lastDrain.sent[i].data.created_at

\* Whether the client saw the i-th entry of the last drain fail.
FailedInDrain(i) ==
  lastDrain.net # "ok"
  \/ \E k \in 1..Len(lastDrain.errors) : lastDrain.errors[k] = lastDrain.sent[i].key

\* C6: an entry that fails in a drain stays in the queue with its retry counter one higher,
\* unless this was its third failure: then it is removed.
C6_RetryCeiling ==
  (lastDrain.kind # "none") =>
    \A i \in 1..Len(lastDrain.sent) :
      FailedInDrain(i) =>
        IF lastDrain.sent[i].retries + 1 >= MaxRetries
        THEN ~\E e \in syncQueue : e.key = lastDrain.sent[i].key
        ELSE \E e \in syncQueue : /\ e.key = lastDrain.sent[i].key
                                  /\ e.retries = lastDrain.sent[i].retries + 1

\* The updates of rows that existed, among the changes the last request to /api/sync
\* carried.
UpdatesOfExistingRows ==
  {i \in 1..Len(lastDrain.log) :
     lastDrain.log[i].action = "update" /\ lastDrain.log[i].existed}

\* C3: a queued update with client timestamp Tc that meets a server row with updated_at Ts
\* is written if and only if Ts <= Tc; when Ts > Tc exactly one conflict record (id, type,
\* reason, server timestamp, client timestamp) is added and the row stays as it was.
C3_UpdateWrittenIffNotNewer ==
  (lastDrain.kind = "batch") =>
    \A i \in UpdatesOfExistingRows :
      LET l == lastDrain.log[i]
      IN /\ l.written <=> (l.Ts <= l.Tc)
         /\ (l.Ts > l.Tc) =>
              /\ l.nconf = 1
              /\ l.rowSame
              /\ l.conflict = [id |-> l.id, type |-> l.type,
                               reason |-> "Server version is newer",
                               serverTimestamp |-> l.Ts, clientTimestamp |-> l.Tc]

\* A request to /api/sync has met a newer server row of a task with a queued update and
\* has answered with a conflict.
C3_Witness ==
  /\ lastDrain.kind = "batch"
  /\ \E i \in UpdatesOfExistingRows :
       /\ lastDrain.log[i].type = "task"
       /\ lastDrain.log[i].Ts > lastDrain.log[i].Tc
       /\ lastDrain.log[i].nconf = 1
       /\ ~lastDrain.log[i].written

\* C7: once the page stays online, the sync queue becomes empty and stays empty.
C7_QueueEventuallyEmpties == (<>[]online) => <>[](syncQueue = {})

\* C8: a mutation of a task or of a task list made offline leaves the record in the local
\* store as pending (deleted for a delete, so that reads no longer return it) and has
\* appended exactly one queue entry with the same type, the same action and the record.
C8_OfflineMutationAppliedAndQueued ==
  (lastOp.op \in {"create", "update", "delete"} /\ lastOp.offline /\ ~lastOp.thrown) =>
    LET store == IF lastOp.type = "task" THEN localTasks ELSE localLists
    IN /\ lastOp.enq
       /\ Cardinality(EntriesOfLastOp) = 1
       /\ store[lastOp.id] # Absent
       /\ store[lastOp.id].sync_status =
            (IF lastOp.op = "delete" THEN "deleted" ELSE "pending")
       /\ (lastOp.op = "delete") => lastOp.id \notin getTasks(store)
       /\ \A e \in EntriesOfLastOp : e.data = store[lastOp.id]

\* C9: a reminder whose callback was armed when updateTaskNotification ran for its task is
\* never shown afterwards.
C9_StaleCallbackNeverFires == \A n \in shown : n.id \notin superseded

\* C10: per task id there is at most one persisted reminder, at most one live timer of the
\* page and at most one live timer of the service worker.
C10_OneReminderPerTask ==
  \A id \in TaskIds :
    /\ Cardinality({i \in 1..Len(persisted) : persisted[i].taskId = id}) <= 1
    /\ Cardinality({t \in timers : t.n.taskId = id}) <= 1
    /\ Cardinality({t \in swTimers : t.taskId = id}) <= 1

\* C11: every reminder record of a task that wants a reminder has fire time = due time
\* minus the lead time of its notification_time, and no scheduling path shows a
\* notification at schedule time: neither the page (a reminder shown at or after its time
\* only) nor the service worker's scheduler and queue (every notification it showed was
\* shown by a timer).
C11_NoStaleReminder ==
  /\ \A i \in 1..Len(persisted) :
       LET n == persisted[i]
           task == localTasks[n.taskId]
       IN (task # Absent /\ task.notification_time = n.notificationTime)
            => n.scheduledTime = task.due - getNotificationDelay(n.notificationTime)
  /\ \A n \in shown : n.scheduledTime <= now
  /\ \A s \in swShown : s.tid # 0

\* C12: a task that is completed or deleted has no reminder record left, and no local
\* notification was ever shown for a task that was completed or deleted by then.
C12_NoReminderAfterCompletionOrDeletion ==
  /\ \A id \in usedIds \cap TaskIds :
       CompletedOrDeleted(id) => \A i \in 1..Len(persisted) : persisted[i].taskId # id
  /\ lateShown = {}

\* C13: after the snooze action on a reminder of a task that still wants a reminder, the
\* list of scheduled reminders holds exactly one record of that task, with fire time =
\* time of the snooze + the minutes snoozed whatever the task's due time and lead time,
\* and, as after a cancel followed by a schedule at that time, exactly one callback was
\* armed for it, one that will show the reminder.
C13_SnoozeReschedules ==
  (lastOp.op = "snooze" /\ lastOp.found) =>
    LET recs == {i \in 1..Len(persisted) : persisted[i].taskId = lastOp.id}
        armed == timers \ lastOp.timersBefore
    IN /\ Cardinality(recs) = 1
       /\ \A i \in recs : persisted[i].scheduledTime = lastOp.at + lastOp.minutes
       /\ Cardinality(armed) = 1
       /\ \A t \in armed : /\ t.n.taskId = lastOp.id
                           /\ t.n.scheduledTime = lastOp.at + lastOp.minutes
                           /\ t.permission = "granted"

\* The number of the day of a date, counted from 1 January 2024.
RECURSIVE DayNumber(_)
DayNumber(date) ==
  IF date.m > 1 THEN DaysInMonth(date.y, date.m - 1) + DayNumber([date EXCEPT !.m = @ - 1])
  ELSE IF date.y > 2024 THEN (IF IsLeap(date.y - 1) THEN 366 ELSE 365)
                             + DayNumber([date EXCEPT !.y = @ - 1])
  ELSE date.d - 1

\* The date i calendar months after a date: the same day of the month, or the last day
\* of a shorter month.
MonthsAfter(date, i) ==
  LET months == (date.m - 1) + i
      y == date.y + (months \div 12)
      m == (months % 12) + 1
  IN [y |-> y, m |-> m, d |-> IF date.d > DaysInMonth(y, m) THEN DaysInMonth(y, m) ELSE date.d]

\* The same day one year after a date (none of ExpandTodays is a 29 February).
OneYearAfter(date) == [date EXCEPT !.y = @ + 1]

\* C14: the instances an expander produced are strictly increasing in due date, the i-th
\* is due exactly i rule steps (1 day, 7 days, 1 calendar month) after the parent, none
\* is due later than today + 1 year, and there are at most 30 / 52 / 12 of them.
C14_ExpanderOutput ==
  expIn.recurrence # "none" /\ expIn.done =>
    /\ \A i \in 1..Len(expOut), j \in 1..Len(expOut) : i < j => After(expOut[j], expOut[i])
    /\ \A i \in 1..Len(expOut) :
         CASE expIn.recurrence = "daily" ->
                DayNumber(expOut[i]) = DayNumber(expIn.due_date) + i
           [] expIn.recurrence = "weekly" ->
                DayNumber(expOut[i]) = DayNumber(expIn.due_date) + 7 * i
           [] expIn.recurrence = "monthly" -> expOut[i] = MonthsAfter(expIn.due_date, i)
    /\ \A i \in 1..Len(expOut) : ~After(expOut[i], OneYearAfter(expIn.today))
    /\ Len(expOut) <= (CASE expIn.recurrence = "daily" -> 30
                          [] expIn.recurrence = "weekly" -> 52
                          [] expIn.recurrence = "monthly" -> 12)

\* The rows of a store that are the instances of parent P.
InstancesOf(store, P) == {r \in store : r.recurrence_id = P}

\* C15: a weekly parent that addTask created while online, due on the day of its
\* creation, is in a store together with exactly 52 instances, one for each of the dates
\* 7 * i days after the parent's due date (i = 1..52), and is the only row with its id
\* and the only recurring parent of the series.
C15_WeeklySeriesOnline ==
  \A P \in rAddedOnline : \A store \in {visibleTasks(rLocal), rRemote} :
    \A parent \in {r \in store : r.id = P /\ r.recurrence = "weekly" /\ r.due_date = Today} :
      /\ parent.is_recurring_parent
      /\ Cardinality({r \in store : r.id = P}) = 1
      /\ Cardinality(InstancesOf(store, P)) = 52
      /\ \A i \in 1..52 :
           \E r \in InstancesOf(store, P) :
             DayNumber(r.due_date) = DayNumber(parent.due_date) + 7 * i
      /\ \A r \in InstancesOf(store, P) :
           DayNumber(r.due_date) <= DayNumber([parent.due_date EXCEPT !.y = @ + 1])

\* The task stores a series claim speaks of: the rows the local store shows, and the
\* remote table.
SeriesStores == {visibleTasks(rLocal), rRemote}

\* C16: in the local store and in the remote store, whatever was added, edited, completed,
\* expanded and synced: a task with a recurrence is flagged is_recurring_parent and has
\* no recurrence_id; a task with a recurrence_id has no recurrence, is no parent, and the
\* store holds its parent; a task without recurrence is not flagged is_recurring_parent.
C16_RecurrenceColumns ==
  \A store \in SeriesStores : \A t \in store :
    /\ t.recurrence # "none" => t.is_recurring_parent /\ t.recurrence_id = 0
    /\ t.recurrence_id # 0 =>
         /\ t.recurrence = "none" /\ ~t.is_recurring_parent
         /\ \E q \in store : q.id = t.recurrence_id /\ q.is_recurring_parent
    /\ t.recurrence = "none" => ~t.is_recurring_parent

\* A due date one rule step after another.
IsNextStep(date, from, rule) ==
  CASE rule = "daily" -> DayNumber(date) = DayNumber(from) + 1
    [] rule = "weekly" -> DayNumber(date) = DayNumber(from) + 7
    [] rule = "monthly" -> date = MonthsAfter(from, 1)
    [] OTHER -> FALSE

\* The tasks the last call created: in a store, or queued to be created on the server.
CreatedByLast ==
  {r \in visibleTasks(rLocal) \cup rRemote
          \cup {rQueue[i].data : i \in {k \in 1..Len(rQueue) : rQueue[k].action = "create"
                                                            /\ rQueue[k].type = "task"}} :
     r.id > rLast.nextIdBefore}

\* The last call completed a task of a series, the parent or an instance, that a store
\* held; the series is one that addTask created.
CompletedOfSeries ==
  /\ rLast.op = "updateTask" /\ rLast.completes /\ ~rLast.thrown
  /\ \/ rLast.before.is_recurring_parent
     \/ \E q \in rLast.localBefore \cup rLast.remoteBefore :
          q.id = rLast.before.recurrence_id /\ q.is_recurring_parent
  /\ \E store \in {rLast.localBefore, rLast.remoteBefore} :
       \E q \in store : q.id = rLast.before.id

\* The series of the task the last call completed, its rule, the stores that held the
\* task, and whether a store held a task of the series, not completed, due one rule
\* step after it.
LastSeries ==
  IF rLast.before.recurrence_id # 0 THEN rLast.before.recurrence_id ELSE rLast.before.id

LastRule ==
  LET known == rLast.localBefore \cup rLast.remoteBefore
  IN IF rLast.before.recurrence # "none" THEN rLast.before.recurrence
     ELSE IF \E q \in known : q.id = LastSeries
          THEN (CHOOSE q \in known : q.id = LastSeries).recurrence
          ELSE "none"

LastHolders ==
  {store \in {rLast.localBefore, rLast.remoteBefore} : \E q \in store : q.id = rLast.before.id}

SuccessorIn(store) ==
  \E q \in store : /\ q.recurrence_id = LastSeries /\ ~q.completed
                    /\ IsNextStep(q.due_date, rLast.before.due_date, LastRule)

\* C17: when a task of a series goes from not completed to completed and no task of the
\* series that is not completed is due one rule step later, exactly one task is created,
\* an instance of the series due one rule step later; when such a task exists, none is
\* created.  (A successor known to one store only is left to either outcome.)
C17_CompletionCreatesNext ==
  CompletedOfSeries /\ LastRule # "none" =>
    /\ (\A store \in LastHolders : ~SuccessorIn(store)) =>
         /\ Cardinality({r.id : r \in CreatedByLast}) = 1
         /\ \A r \in CreatedByLast :
              /\ r.recurrence_id = LastSeries /\ ~r.completed
              /\ IsNextStep(r.due_date, rLast.before.due_date, LastRule)
    /\ (\A store \in LastHolders : SuccessorIn(store)) => CreatedByLast = {}

\* C18: an update that does not take a task from not completed to completed creates no
\* task; completing a task of a series whose successor exists and is not completed
\* creates no task; and in the local store and in the remote store no series has two
\* instances that are not completed with the same due date.
C18_NoDuplicateInstance ==
  /\ rLast.op = "updateTask" /\ ~rLast.thrown /\ ~rLast.completes => CreatedByLast = {}
  /\ CompletedOfSeries /\ LastRule # "none"
       /\ (\A store \in LastHolders : SuccessorIn(store)) => CreatedByLast = {}
  /\ \A store \in SeriesStores : \A a \in store, b \in store :
       /\ a.recurrence_id # 0 /\ a.recurrence_id = b.recurrence_id
       /\ a.due_date = b.due_date /\ ~a.completed /\ ~b.completed
       => a.id = b.id

\* The rows of a store that belong to the series of parent P.
SeriesOf(store, P) == {r \in store : r.id = P \/ r.recurrence_id = P}

\* The queue holds no delete of a task any more.
DeletesDrained == \A i \in 1..Len(rQueue) : ~(rQueue[i].type = "task" /\ rQueue[i].action = "delete")

\* C19: right after deleteTask on the parent P of a series, or on an instance of it, the
\* local store shows no task with id P or recurrence_id P; and once the queued deletes
\* are drained, the remote store holds no task with id P or recurrence_id P.
C19_SeriesDeleteCascades ==
  /\ rLast.op = "deleteTask" => SeriesOf(visibleTasks(rLocal), rLast.parentId) = {}
  /\ DeletesDrained => \A P \in rDeleted : SeriesOf(rRemote, P) = {}

\* The queue holds no delete of a list any more.
ListDeletesDrained ==
  \A i \in 1..Len(rQueue) : ~(rQueue[i].type = "task_list" /\ rQueue[i].action = "delete")

\* C20: once deleteTaskList has been applied (at once when online, after the drain of the
\* queued delete otherwise) and the list is gone from the server, the remote store and
\* the local store show no task whose list_id is the deleted list; and no remote task
\* names a list that does not exist.
C20_ListDeleteCascades ==
  /\ ListDeletesDrained =>
       \A L \in rDeletedLists \ rRemoteLists :
         \A store \in SeriesStores : \A t \in store : t.list_id # L
  /\ \A t \in rRemote : t.list_id # 0 => t.list_id \in rRemoteLists

\* C21: what getTasks, getTask and getTaskLists return holds no record marked deleted, and
\* getTasks(u) and getTaskLists(u) return every record of user u that is not marked
\* deleted, getTask(id) the record with that id unless it is marked deleted.
C21_ReadsHideDeleted ==
  /\ idbRead.op = "getTasks" =>
       idbRead.result = {idbTasks[id] : id \in {k \in IdbTaskIds :
                            /\ idbTasks[k] # Absent
                            /\ idbTasks[k].user_id = idbRead.userId
                            /\ idbTasks[k].sync_status \in {"synced", "pending"}}}
  /\ idbRead.op = "getTaskLists" =>
       idbRead.result = {idbLists[id] : id \in {k \in IdbListIds :
                            /\ idbLists[k] # Absent
                            /\ idbLists[k].user_id = idbRead.userId
                            /\ idbLists[k].sync_status \in {"synced", "pending"}}}
  /\ idbRead.op = "getTask" =>
       LET row == idbTasks[idbRead.taskId]
       IN IF row # Absent /\ row.sync_status \in {"synced", "pending"}
          THEN idbRead.result = row
          ELSE idbRead.result = Absent

\* A read of a user's tasks made while the store holds a row of that user marked deleted
\* next to one that is not.
C21_Witness ==
  /\ idbRead.op = "getTasks"
  /\ \E a \in IdbTaskIds, b \in IdbTaskIds :
       /\ idbTasks[a] # Absent /\ idbTasks[a].user_id = idbRead.userId
       /\ idbTasks[a].sync_status = "deleted"
       /\ idbTasks[b] # Absent /\ idbTasks[b].user_id = idbRead.userId
       /\ idbTasks[b].sync_status = "pending"
       /\ idbRead.result = {idbTasks[b]}

\* ---------------------------------------------------------------- C22
\* The lead a notification_time stands for, in minutes; a value outside the list stands
\* for the default of ten minutes.
LeadMinutes(name) == IF name = "3min" THEN 3 ELSE IF name = "5min" THEN 5 ELSE 10
FireTime(row) == row.due - LeadMinutes(row.notification_time)
InFireWindow(row, t) == FireTime(row) \in (t - 1)..(t + 1)

\* C22: a scan pass selects, for each channel on its own, exactly the tasks that are not
\* completed, have the channel's flag set and whose fire time (due time minus lead) lies
\* within one minute of now; nothing else is selected.
C22_ScanSelectsDue ==
  scLast.op = "pass" =>
    /\ scLast.push = {id \in ScanIds : /\ scTasks[id] # Absent
                                       /\ ~scTasks[id].completed
                                       /\ scTasks[id].push_notification
                                       /\ InFireWindow(scTasks[id], scLast.now)}
    /\ scLast.email = {id \in ScanIds : /\ scTasks[id] # Absent
                                        /\ ~scTasks[id].completed
                                        /\ scTasks[id].email_reminder
                                        /\ InFireWindow(scTasks[id], scLast.now)}

\* A pass that selects task 1 for push only while task 2, completed and flagged for both
\* channels, is inside the window as well.
C22_Witness ==
  /\ scLast.op = "pass"
  /\ scLast.push = {1}
  /\ scLast.email = {}
  /\ scTasks[2] # Absent
  /\ scTasks[2].completed
  /\ scTasks[2].email_reminder
  /\ scTasks[2].push_notification
  /\ InFireWindow(scTasks[2], scLast.now)

\* ---------------------------------------------------------------- C24
\* C24: a task matched by more than one scan pass is delivered at most once per endpoint
\* and channel for its fire window; a second match does not deliver again.
C24_DeliveredOnce == \A tag \in ScanTags : scSent[tag] <= 1

\* ---------------------------------------------------------------- C25
DrainedBatch == lastDrain.kind = "batch" /\ lastDrain.log # <<>>

\* C25: POST /api/sync handles every change of the request on its own: a change that
\* fails is put into errors and the changes after it are still handled, so
\* processed + |errors| = |changes|; the per-item drain of the client also goes on with
\* the next entry after a failed one.
C25_ChangesIndependent ==
  /\ DrainedBatch =>
       /\ lastDrain.processed + Len(lastDrain.errors) = Len(lastDrain.sent)
       /\ Len(lastDrain.log) = Len(lastDrain.sent)
       /\ \A i \in 1..Len(lastDrain.sent) :
            /\ lastDrain.log[i].key = lastDrain.sent[i].key
            /\ lastDrain.log[i].threw <=>
                 \E k \in 1..Len(lastDrain.errors) : lastDrain.errors[k] = lastDrain.sent[i].key
            /\ (lastDrain.log[i].action = "delete" /\ lastDrain.log[i].existed)
                 => ~lastDrain.log[i].rowSame
  /\ lastDrain.kind = "items" =>
       /\ lastDrain.processed + Len(lastDrain.errors) = Len(lastDrain.sent)
       /\ \A i \in 1..Len(lastDrain.sent) :
            LET failed == \E k \in 1..Len(lastDrain.errors) :
                            lastDrain.errors[k] = lastDrain.sent[i].key
                left == {e \in syncQueue : e.key = lastDrain.sent[i].key}
            IN /\ ~failed => left = {}
               /\ failed =>
                    left = IF lastDrain.sent[i].retries + 1 >= MaxRetries THEN {}
                           ELSE {[lastDrain.sent[i] EXCEPT !.retries = @ + 1]}

\* A batch whose first change failed and whose later change, a delete of an existing
\* row, was still carried out.
C25_Witness ==
  /\ DrainedBatch
  /\ Len(lastDrain.sent) >= 2
  /\ lastDrain.log[1].threw
  /\ \E i \in 2..Len(lastDrain.sent) :
       /\ ~lastDrain.log[i].threw
       /\ lastDrain.log[i].action = "delete"
       /\ lastDrain.log[i].existed
       /\ ~lastDrain.log[i].rowSame

\* ---------------------------------------------------------------- C26
\* The last request named a row that belonged to somebody else.
CrossUser ==
  /\ auLast.op \in {"put", "delete", "sync"}
  /\ auLast.before[auLast.id] # Absent
  /\ auLast.before[auLast.id].user_id # auLast.caller

\* C26: no request of one user reads, changes or deletes a row of another user; a request
\* that names such a row is refused as Forbidden and leaves the row as it was.
C26_NoCrossUserAccess ==
  auLast.op # "none" =>
    /\ \A id \in AuthIds :
         (auLast.before[id] # Absent /\ auLast.before[id].user_id # auLast.caller)
           => auTasks[id] = auLast.before[id]
    /\ \A row \in auLast.result : row.user_id = auLast.caller
    /\ CrossUser => auLast.status = "403"

\* The part of C26 that holds: the rows of the others are neither returned nor touched.
AuthOthersUntouched ==
  auLast.op # "none" =>
    /\ \A id \in AuthIds :
         (auLast.before[id] # Absent /\ auLast.before[id].user_id # auLast.caller)
           => auTasks[id] = auLast.before[id]
    /\ \A row \in auLast.result : row.user_id = auLast.caller

\* ---------------------------------------------------------------- C27
\* C27: while a change of a task waits in the sync queue, a refetch leaves the local copy
\* of that task as the change made it, marked pending or deleted; the server's row does
\* not replace it.
C27_PendingSurvivesRefetch ==
  \A e \in syncQueue :
    e.type = "task" =>
      /\ localTasks[e.data.id] # Absent
      /\ localTasks[e.data.id].sync_status \in {"pending", "deleted"}

\* ---------------------------------------------------------------- C28
StillQueued(i) == \E e \in syncQueue : e.key = lastDrain.sent[i].key

\* C28: after an answered batch the entries taken out of the queue are the ones whose
\* change the server applied: an entry reported in errors stays queued, an applied one
\* does not, wherever in the batch the failing change stood.  (An entry reported as a
\* conflict is left to C30.)
C28_RemovedAreApplied ==
  (DrainedBatch /\ lastDrain.net = "ok") =>
    \A i \in 1..Len(lastDrain.sent) :
      /\ lastDrain.log[i].threw => StillQueued(i)
      /\ (~lastDrain.log[i].threw /\ lastDrain.log[i].nconf = 0) => ~StillQueued(i)

\* ---------------------------------------------------------------- C29
\* C29: once the creates of a series made on the client are drained, the remote store
\* holds the instances the client's expander made and no others: one instance of the
\* series for each due date.
C29_SyncedSeriesAsExpanded ==
  rQueue = <<>> =>
    \A parent \in {r \in rRemote : r.is_recurring_parent} :
      \A a, b \in InstancesOf(rRemote, parent.id) :
        a.due_date = b.due_date => a.id = b.id

\* ---------------------------------------------------------------- C30
\* The changes of the last batch that the server reported as a conflict for a task.
ConflictedTasks ==
  {i \in 1..Len(lastDrain.log) : lastDrain.log[i].type = "task" /\ lastDrain.log[i].nconf > 0}

\* C30: when a drain reports a conflict for a task, the conflicting write is not applied
\* to the server's row, and once the refetch of the drain is done the local copy of the
\* task is the server's row, marked synced.
C30_ConflictYieldsServerRow ==
  (DrainedBatch /\ lastDrain.net = "ok") =>
    \A i \in ConflictedTasks :
      LET T == lastDrain.log[i].id
      IN /\ lastDrain.log[i].rowSame
         /\ ~lastDrain.log[i].written
         /\ (lastDrain.fetchOk /\ remoteTasks[T] # Absent) =>
              localTasks[T] = [remoteTasks[T] EXCEPT !.sync_status = "synced",
                                                     !.offline_created = FALSE]

\* A drain that reported a conflict for the task and whose refetch replaced the local
\* edit (title b, pending) by the server's row (title c).
C30_Witness ==
  /\ DrainedBatch
  /\ lastDrain.net = "ok"
  /\ lastDrain.fetchOk
  /\ ConflictedTasks # {}
  /\ lastDrain.sent[1].type = "task"
  /\ lastDrain.sent[1].data.title = "b"
  /\ lastDrain.sent[1].data.sync_status = "pending"
  /\ remoteTasks[1] # Absent
  /\ localTasks[1] # Absent
  /\ localTasks[1].title = "c"
  /\ localTasks[1].sync_status = "synced"

\* ---------------------------------------------------------------- C31
\* C31: an update in a batch that names a task or a list the server does not have is
\* reported in errors and not counted as processed.
C31_MissingUpdateIsError ==
  DrainedBatch =>
    \A i \in 1..Len(lastDrain.log) :
      (lastDrain.log[i].action = "update" /\ ~lastDrain.log[i].existed)
        => lastDrain.log[i].threw

\* ---------------------------------------------------------------- C32
\* C32: when a reminder fires, its notification is shown and its record, and no other,
\* leaves the persisted list; so the record of a reminder that has fired is not in the
\* list, neither left there by its own firing nor put back by the firing of another.
C32_FiredRecordGone ==
  \A i \in 1..Len(persisted) : persisted[i] \notin shown

\* ---------------------------------------------------------------- C33
\* The task an item of the posted queue names, as the caller may see it.
MailTask(i) ==
  LET task == scTasks[scLast.emailQueue[i]]
  IN IF task # Absent /\ task.user_id = scLast.caller THEN task ELSE Absent

\* C33: POST /sync-emails sends an email for an item only if its task exists, is the
\* caller's, is not completed, has email_reminder set and fires within 5 minutes of now;
\* an item whose task is missing is reported in errors; and sent <= processed <= the
\* length of the queue.
C33_EmailRevalidated ==
  scLast.op = "sync-emails" =>
    /\ \A i \in 1..Len(scLast.emailQueue) :
         /\ i \in scLast.dispatched =>
              /\ MailTask(i) # Absent
              /\ ~MailTask(i).completed
              /\ MailTask(i).email_reminder
              /\ FireTime(MailTask(i)) \in (scLast.now - 5)..(scLast.now + 5)
         /\ MailTask(i) = Absent => i \in scLast.errors
    /\ scLast.sent = Cardinality(scLast.dispatched)
    /\ scLast.sent <= scLast.processed
    /\ scLast.processed <= Len(scLast.emailQueue)

\* A queue of two items: the first names a task that is missing, the second a task that
\* qualifies and is sent.
C33_Witness ==
  /\ scLast.op = "sync-emails"
  /\ Len(scLast.emailQueue) = 2
  /\ scLast.errors = {1}
  /\ scLast.dispatched = {2}
  /\ scLast.processed = 1
  /\ scLast.sent = 1

\* ---------------------------------------------------------------- C34
InheritedColumns ==
  {"title", "description", "due_time", "priority", "list_id", "email_reminder",
   "push_notification", "notification_time"}

C35_AppliedCreateNotResent ==
  lastDrain.kind # "none" =>
    \A i \in 1..Len(lastDrain.log) :
      (lastDrain.log[i].action = "create" /\ ~lastDrain.log[i].threw) => ~StillQueued(i)

\* ---------------------------------------------------------------- C36
\* C36: a client has at most one drain in flight: a drain triggered while another runs
\* returns without sending, and isSyncing is false again when a drain has ended, with or
\* without an error.
C36_SingleDrainInFlight ==
  /\ tp.flight <= 1
  /\ os.flight <= 1
  /\ (dfLast # NoTrigger /\ dfLast.op # "end" /\ dfLast.during) => ~dfLast.sent
  /\ (dfLast # NoTrigger /\ dfLast.op = "end") =>
       IF dfLast.hook = "TaskProvider" THEN ~tp.isSyncing ELSE ~os.isSyncing

\* ---------------------------------------------------------------- C37
\* C37: a local task marked synced holds content that was written to or read from the
\* remote store, so with no other writer the remote row has the same content; and a
\* local change that is not synced has an entry in the queue.
C37_SyncedIsRemote ==
  \A id \in TaskIds :
    localTasks[id] # Absent =>
      IF localTasks[id].sync_status = "synced"
      THEN /\ remoteTasks[id] # Absent
           /\ FieldsOf(remoteTasks[id]) = FieldsOf(localTasks[id])
      ELSE \E e \in syncQueue : e.type = "task" /\ e.data.id = id

\* ---------------------------------------------------------------- C38
\* C38: for a task and a fire time the page shows the reminder at most once, however
\* often the reminders were derived again from the tasks in between: a notification
\* shown twice would be two reminders of one task with one fire time.
C38_ShownOncePerFireTime ==
  \A n \in shown : \A other \in shown :
    (n.taskId = other.taskId /\ n.scheduledTime = other.scheduledTime) => n = other

\* ---------------------------------------------------------------- C39
\* C39: after a refetch that the server answered, with nothing left in the sync queue, the
\* tasks the local store returns are the tasks the server returned: a task that is gone
\* from the server is not visible in the local cache.
C39_RefetchMirrorsServer ==
  (rLast.op = "refresh" /\ online /\ rQueue = <<>>) =>
    {t.id : t \in visibleTasks(rLocal)} = {r.id : r \in rRemote}

====
